---- MODULE Spec2Model ----
(***************************************************************************)
(* Model of the deposition controller of microfiber-tool (src/backend.py). *)
(*                                                                         *)
(* Two execution contexts share one MachineController:                     *)
(*   "ui"     - the Qt main thread, which runs every public method of the  *)
(*              controller (start/pause/resume/stop/connect/disconnect,    *)
(*              the syringe buttons) and the queued slot                   *)
(*              _on_drawing_finished;                                      *)
(*   "worker" - the QThread started by start_drawing, which runs           *)
(*              DrawingWorker.run -> _run_drawing_loop -> _send_checked.   *)
(* The printer firmware and the serial line are the environment.           *)
(*                                                                         *)
(* Time is kept per exchange as the time elapsed since the command was     *)
(* written (elapsed) against the deadline computed at that moment; a read  *)
(* is stamped with the time at which the loop test of line 344 let it      *)
(* start.                                                                  *)
(***************************************************************************)
EXTENDS Integers, Sequences, FiniteSets, TLC

VARIABLES
    ser,             \* self.ser: "None" | "Open" | "Closed" (object closed, still referenced)
    drawing_thread,  \* self._drawing_thread is not None
    pause_event,     \* self._pause_event.is_set()  (TRUE = not paused)
    stop_event,      \* self._stop_event.is_set()
    layers,          \* Params.layers
    wpc,             \* position of the worker context
    ip,              \* index in Program(..) of the command the worker is at
    nlayers,         \* range(int(layers)) as evaluated by the running worker
    outcome,         \* how the current/last run left _run_drawing_loop
    live,            \* number of execution contexts inside DrawingWorker.run
    upc,             \* position of the ui context inside a multi-step method
    x,               \* per context: the _send_and_wait_ok call in progress
    fwq,             \* commands received by the firmware, not yet answered
    rx,              \* response lines waiting in the serial input buffer
    ev,              \* the last step, when it was a refused or empty operator call
    hist,            \* bookkeeping of the claims (not program state)
    params,          \* self.state.params: the fields the sequencer reads (not layers)
    seq,             \* the locals of _run_custom_centered and its position
    sent             \* the commands the sequencer has written since the current line
                     \* began (before the first line: since the run began), in order

vars == <<ser, drawing_thread, pause_event, stop_event, layers, wpc, ip, nlayers,
          outcome, live, upc, x, fwq, rx, ev, hist, params, seq, sent>>

\* the state of the sequencer of SpecCustom and SpecPlan
seqvars == <<params, seq, sent>>

\* the state of the control surface, the worker and the transport, without layers
ctlvars == <<ser, drawing_thread, pause_event, stop_event, wpc, ip, nlayers,
             outcome, live, upc, x, fwq, rx, ev, hist>>

----------------------------------------------------------------------------
(* Bounds of the model *)

MaxLayers == 1   \* Params.layers ranges over 1..MaxLayers
MaxFw == 2       \* commands the firmware holds unanswered (Spec, SpecProto)
MaxFwSyr == 5    \* the same where the syringe buttons are pressed (SpecSyringe)
MaxRx == 1       \* lines the input buffer holds in the model
TickS == 120     \* seconds that pass in one Tick (Spec, SpecSyringe)
ProtoTickS == 15 \* seconds that pass in one Tick (SpecProto)
MaxCustomLayers == 2  \* Params.layers ranges over 1..MaxCustomLayers (SpecCustom, SpecPlan)
MaxLen == 5      \* fiber_length ranges over 0..MaxLen (millimetres; edits: 0, 1, MaxLen)
MaxWid == 3      \* fiber_width ranges over -1..MaxWid (edits: -1, 0, MaxWid)
MaxSpc == 2      \* fiber_spacing ranges over 0..MaxSpc (edits: 0, 1, MaxSpc)
MaxEdits == 1    \* set_param calls the operator makes during one run (SpecCustom)
MaxLegacyLayers == 4   \* layers ranges over 1..MaxLegacyLayers in SpecModes
MaxSweepLayers == 2    \* layers ranges over 1..MaxSweepLayers in SpecSweep
MaxRuns == 2           \* runs started one after the other in SpecRuns
ZeroStepLines == 3     \* stands for the 82,500,000 sweep iterations of step = 0 (SpecTerm)

(* Program constants *)

DefaultTimeoutS == 30    \* _send_and_wait_ok(timeout_s=30.0)
ConnectTimeoutS == 120   \* connect: _send_and_wait_ok("G28", timeout_s=120.0)
DefaultLayers == 1       \* Params.layers: int = 1

Ctx == {"worker", "ui"}

----------------------------------------------------------------------------
(* Response lines.  A line is modelled by a representative text; the tests *)
(* of _send_and_wait_ok are the membership tests below on Lower(line).     *)

BlankLine == ""
FwLines == {"ok", "echo:busy: processing", "Error:Printer halted"}
AllLines == FwLines \cup {BlankLine, "ok T:21.0 /0.0", "Error: printer busy",
                          "echo: ok", "T:21.0 /0.0"}

\* line.lower() after raw.decode().strip()
Lower(line) ==
    CASE line = "Error:Printer halted" -> "error:printer halted"
      [] line = "Error: printer busy"  -> "error: printer busy"
      [] line = "ok T:21.0 /0.0"       -> "ok t:21.0 /0.0"
      [] line = "T:21.0 /0.0"          -> "t:21.0 /0.0"
      [] OTHER -> line

\* low == "ok" or low.startswith("ok")
StartsWithOk(low) == low \in {"ok", "ok t:21.0 /0.0"}
\* "ok" in low
ContainsOk(low) == low \in {"ok", "ok t:21.0 /0.0", "echo: ok"}
\* "busy" in low
ContainsBusy(low) == low \in {"echo:busy: processing", "error: printer busy"}
\* "error" in low
ContainsError(low) == low \in {"error:printer halted", "error: printer busy"}

\* The decision of lines 346-361 for one line read.
Classify(line) ==
    LET low == Lower(line) IN
    IF line = BlankLine THEN "skip"
    ELSE IF StartsWithOk(low) THEN "ok"
    ELSE IF ContainsBusy(low) THEN "busy"
    ELSE IF ContainsError(low) THEN "error"
    ELSE "other"

----------------------------------------------------------------------------
(* The command sequence of a run.  Header and footer are the literal      *)
(* commands; the scan lines of a layer, each sent through the same        *)
(* _send_checked, stand here as the one command "SCAN".                   *)

Header == <<"M220 S100", "M302 S0", "M221 S100", "G90", "M82", "G1 Z2 F1500", "G92 E0">>
LayerCmds == <<"G90", "G1 Z7", "SCAN">>
Footer == <<"M300 S440 P200", "G0 X10 Y190 Z30 F3000">>

RECURSIVE Body(_)
Body(n) == IF n = 0 THEN <<>> ELSE Body(n - 1) \o LayerCmds

Program(n) == Header \o Body(n) \o Footer

IsFooterIp(n, i) == i > Len(Header) + Len(Body(n))

\* the command at index i is the first of a layer
IsLayerStart(n, i) ==
    /\ i > Len(Header) /\ ~IsFooterIp(n, i)
    /\ (i - Len(Header)) % Len(LayerCmds) = 1

----------------------------------------------------------------------------
(* One _send_and_wait_ok call *)

\* st: where the call is; elapsed: time since the write; sawError, ackFirst:
\* what the lines read so far contained (bookkeeping of the claims)
IdleX == [st |-> "idle", cmd |-> "", timeout_s |-> 0, deadline |-> 0, elapsed |-> 0,
          last_nonempty |-> "None", sawError |-> FALSE, ackFirst |-> FALSE]

NewCall(cmd, timeout_s) ==
    [st |-> "check", cmd |-> cmd, timeout_s |-> timeout_s, deadline |-> 0, elapsed |-> 0,
     last_nonempty |-> "None", sawError |-> FALSE, ackFirst |-> FALSE]

ResultSt == {"ok", "fwerror", "timeout", "noconn", "ioerror"}

\* a command written earlier is neither acknowledged nor failed
Unacked ==
    \/ \E c \in Ctx : x[c].st = "await"
    \/ \E i \in 1..Len(fwq) : fwq[i] = "syringe"

NoHist == [pending |-> FALSE, wsp |-> 0]

\* line 336
SendCheck(c) ==
    /\ x[c].st = "check"
    /\ x' = [x EXCEPT ![c].st = IF ser = "None" THEN "noconn" ELSE "write"]
    /\ ev' = "step"
    /\ UNCHANGED <<ser, drawing_thread, pause_event, stop_event, layers, wpc, ip, nlayers,
                   outcome, live, upc, fwq, rx, hist>>
    /\ UNCHANGED seqvars

\* lines 339-342: the write, then the deadline
SendWrite(c, cap) ==
    /\ x[c].st = "write"
    /\ IF ser = "Open"
         THEN /\ Len(fwq) < cap
              /\ fwq' = Append(fwq, c)
              /\ x' = [x EXCEPT ![c].st = "await",
                                ![c].deadline = x[c].elapsed + x[c].timeout_s]
              /\ hist' = IF c = "worker" /\ hist.pending /\ hist.wsp < 2
                           THEN [hist EXCEPT !.wsp = hist.wsp + 1] ELSE hist
         ELSE /\ x' = [x EXCEPT ![c].st = "ioerror"]
              /\ UNCHANGED <<fwq, hist>>
    /\ ev' = "step"
    /\ UNCHANGED <<ser, drawing_thread, pause_event, stop_event, layers, wpc, ip, nlayers,
                   outcome, live, upc, rx>>
    /\ UNCHANGED seqvars

\* lines 344-361: one iteration of the wait loop that reaches readline
AwaitReadWith(c, busyResets) ==
    /\ x[c].st = "await"
    /\ x[c].elapsed < x[c].deadline
    /\ IF ser # "Open"
         THEN /\ x' = [x EXCEPT ![c].st = "ioerror"]
              /\ UNCHANGED rx
         ELSE IF rx = <<>>
         THEN UNCHANGED <<x, rx>>
         ELSE LET line == Head(rx)
                  k == Classify(line) IN
              /\ rx' = Tail(rx)
              /\ x' = [x EXCEPT ![c].st = CASE k = "ok" -> "ok" [] k = "error" -> "fwerror"
                                             [] OTHER -> "await",
                                ![c].deadline =
                                    IF busyResets /\ k = "busy"
                                      THEN x[c].elapsed + x[c].timeout_s ELSE x[c].deadline,
                                ![c].last_nonempty =
                                    IF k = "skip" THEN x[c].last_nonempty ELSE line,
                                ![c].sawError =
                                    x[c].sawError \/ ContainsError(Lower(line)),
                                ![c].ackFirst =
                                    \/ x[c].ackFirst
                                    \/ ContainsOk(Lower(line)) /\ ~x[c].sawError
                                       /\ ~ContainsError(Lower(line))]
    /\ ev' = "step"
    /\ UNCHANGED <<ser, drawing_thread, pause_event, stop_event, layers, wpc, ip, nlayers,
                   outcome, live, upc, fwq, hist>>
    /\ UNCHANGED seqvars

AwaitReadMutBusyResets(c) == AwaitReadWith(c, TRUE)

AwaitRead(c) == AwaitReadWith(c, FALSE)

\* line 344 fails, lines 363-366
AwaitTimeout(c) ==
    /\ x[c].st = "await"
    /\ ~(x[c].elapsed < x[c].deadline)
    /\ x' = [x EXCEPT ![c].st = "timeout"]
    /\ ev' = "step"
    /\ UNCHANGED <<ser, drawing_thread, pause_event, stop_event, layers, wpc, ip, nlayers,
                   outcome, live, upc, fwq, rx, hist>>
    /\ UNCHANGED seqvars

\* time.time() advances by dt while some call waits for its acknowledgment
Tick(dt) ==
    /\ \E c \in Ctx : x[c].st = "await" /\ x[c].elapsed < x[c].deadline
    /\ x' = [c \in Ctx |->
                IF x[c].st = "await" /\ x[c].elapsed < x[c].deadline
                  THEN [x[c] EXCEPT !.elapsed = x[c].elapsed + dt] ELSE x[c]]
    /\ ev' = "step"
    /\ UNCHANGED <<ser, drawing_thread, pause_event, stop_event, layers, wpc, ip, nlayers,
                   outcome, live, upc, fwq, rx, hist>>
    /\ UNCHANGED seqvars

----------------------------------------------------------------------------
(* The firmware: answers the commands it received, in order.  A line sent *)
(* while the port is not open is lost.                                    *)

Deliver(line) == IF ser = "Open" THEN Append(rx, line) ELSE rx

FwOk ==
    /\ fwq # <<>> /\ Len(rx) < MaxRx
    /\ fwq' = Tail(fwq)
    /\ rx' = Deliver("ok")
    /\ ev' = "step"
    /\ UNCHANGED <<ser, drawing_thread, pause_event, stop_event, layers, wpc, ip, nlayers,
                   outcome, live, upc, x, hist>>
    /\ UNCHANGED seqvars

FwBusy ==
    /\ fwq # <<>> /\ Len(rx) < MaxRx /\ ser = "Open"
    /\ rx' = Deliver("echo:busy: processing")
    /\ ev' = "step"
    /\ UNCHANGED <<ser, drawing_thread, pause_event, stop_event, layers, wpc, ip, nlayers,
                   outcome, live, upc, x, fwq, hist>>
    /\ UNCHANGED seqvars

FwError ==
    /\ fwq # <<>> /\ Len(rx) < MaxRx
    /\ fwq' = Tail(fwq)
    /\ rx' = Deliver("Error:Printer halted")
    /\ ev' = "step"
    /\ UNCHANGED <<ser, drawing_thread, pause_event, stop_event, layers, wpc, ip, nlayers,
                   outcome, live, upc, x, hist>>
    /\ UNCHANGED seqvars


----------------------------------------------------------------------------
(* The worker context: DrawingWorker.run *)

\* an exception leaves _run_drawing_loop: run() emits error and falls to finally
Raise(msg) ==
    /\ wpc' = "done"
    /\ outcome' = msg
    /\ x' = [x EXCEPT !["worker"] = IdleX]

\* the command the worker is at
CmdAt(i) == IF i <= Len(Header) THEN Header[i] ELSE Program(nlayers)[i]

\* _run_drawing_loop, lines 480-487
RunDrawingLoop ==
    /\ wpc = "run"
    /\ IF ser = "None"
         THEN Raise("NoConnection")
         ELSE /\ wpc' = "stopchk"
              /\ UNCHANGED <<outcome, x>>
    /\ ev' = "step"
    /\ UNCHANGED <<ser, drawing_thread, pause_event, stop_event, layers, ip, nlayers,
                   live, upc, fwq, rx, hist>>
    /\ UNCHANGED seqvars

\* _send_checked, lines 499-500
SendChecked ==
    /\ wpc = "stopchk"
    /\ IF stop_event
         THEN Raise("Stopped")
         ELSE /\ wpc' = "gate"
              /\ UNCHANGED <<outcome, x>>
    /\ ev' = "step"
    /\ UNCHANGED <<ser, drawing_thread, pause_event, stop_event, layers, ip, nlayers,
                   live, upc, fwq, rx, hist>>
    /\ UNCHANGED seqvars

\* _wait_pause_or_stop, lines 491-494: one evaluation of the loop
WaitPauseMutNoWait ==
    /\ wpc = "gate"
    /\ wpc' = "gate_exit"
    /\ ev' = "step"
    /\ UNCHANGED <<ser, drawing_thread, pause_event, stop_event, layers, ip, nlayers,
                   outcome, live, upc, x, fwq, rx, hist>>
    /\ UNCHANGED seqvars

WaitPauseMutTimesOut ==
    /\ wpc = "gate"
    /\ IF ~pause_event
         THEN Raise(IF stop_event THEN "Stopped" ELSE "Timeout")
         ELSE /\ wpc' = "gate_exit"
              /\ UNCHANGED <<outcome, x>>
    /\ ev' = "step"
    /\ UNCHANGED <<ser, drawing_thread, pause_event, stop_event, layers, ip, nlayers,
                   live, upc, fwq, rx, hist>>
    /\ UNCHANGED seqvars

WaitPauseMutIgnoresStop ==
    /\ wpc = "gate"
    /\ IF ~pause_event
         THEN UNCHANGED <<wpc, outcome, x>>
         ELSE /\ wpc' = "gate_exit"
              /\ UNCHANGED <<outcome, x>>
    /\ ev' = "step"
    /\ UNCHANGED <<ser, drawing_thread, pause_event, stop_event, layers, ip, nlayers,
                   live, upc, fwq, rx, hist>>
    /\ UNCHANGED seqvars

WaitPause ==
    /\ wpc = "gate"
    /\ IF ~pause_event
         THEN IF stop_event
                THEN Raise("Stopped")
                ELSE UNCHANGED <<wpc, outcome, x>>
         ELSE /\ wpc' = "gate_exit"
              /\ UNCHANGED <<outcome, x>>
    /\ ev' = "step"
    /\ UNCHANGED <<ser, drawing_thread, pause_event, stop_event, layers, ip, nlayers,
                   live, upc, fwq, rx, hist>>
    /\ UNCHANGED seqvars

\* _wait_pause_or_stop, lines 495-496, then the call of line 502
WaitStopMutNoCheck ==
    /\ wpc = "gate_exit"
    /\ wpc' = "send"
    /\ x' = [x EXCEPT !["worker"] = NewCall(CmdAt(ip), DefaultTimeoutS)]
    /\ ev' = "step"
    /\ UNCHANGED <<ser, drawing_thread, pause_event, stop_event, layers, ip, nlayers,
                   outcome, live, upc, fwq, rx, hist>>
    /\ UNCHANGED seqvars

WaitStop ==
    /\ wpc = "gate_exit"
    /\ IF stop_event
         THEN Raise("Stopped")
         ELSE /\ wpc' = "send"
              /\ x' = [x EXCEPT !["worker"] = NewCall(CmdAt(ip), DefaultTimeoutS)]
              /\ UNCHANGED outcome
    /\ ev' = "step"
    /\ UNCHANGED <<ser, drawing_thread, pause_event, stop_event, layers, ip, nlayers,
                   live, upc, fwq, rx, hist>>
    /\ UNCHANGED seqvars

SendReturnMutRetry ==
    /\ wpc = "send"
    /\ x["worker"].st \in ResultSt
    /\ LET st == x["worker"].st
           n == IF ip = Len(Header) THEN layers ELSE nlayers IN
       IF st = "ok"
         THEN /\ nlayers' = n
              /\ IF ip < Len(Program(n))
                   THEN \/ /\ ip' = ip + 1
                           /\ wpc' = "stopchk"
                           /\ x' = [x EXCEPT !["worker"] = IdleX]
                           /\ UNCHANGED outcome
                        \/ /\ IsLayerStart(n, ip + 1)
                           /\ Raise("ParameterError")
                           /\ UNCHANGED ip
                   ELSE /\ wpc' = "done"
                        /\ outcome' = "Completed"
                        /\ x' = [x EXCEPT !["worker"] = IdleX]
                        /\ UNCHANGED ip
         ELSE IF st \in {"fwerror", "timeout"}
         THEN /\ x' = [x EXCEPT !["worker"] = NewCall(CmdAt(ip), DefaultTimeoutS)]
              /\ UNCHANGED <<wpc, outcome, ip, nlayers>>
         ELSE /\ Raise(CASE st = "noconn" -> "NoConnection"
                         [] OTHER -> "IOError")
              /\ UNCHANGED <<ip, nlayers>>
    /\ ev' = "step"
    /\ UNCHANGED <<ser, drawing_thread, pause_event, stop_event, layers, live, upc, fwq, rx,
                   hist>>
    /\ UNCHANGED seqvars

SendReturnMutParkOnFailure ==
    /\ wpc = "send"
    /\ x["worker"].st \in ResultSt
    /\ LET st == x["worker"].st
           n == IF ip = Len(Header) THEN layers ELSE nlayers IN
       IF st = "ok"
         THEN /\ nlayers' = n
              /\ IF ip < Len(Program(n))
                   THEN \/ /\ ip' = ip + 1
                           /\ wpc' = "stopchk"
                           /\ x' = [x EXCEPT !["worker"] = IdleX]
                           /\ UNCHANGED outcome
                        \/ /\ IsLayerStart(n, ip + 1)
                           /\ Raise("ParameterError")
                           /\ UNCHANGED ip
                   ELSE /\ wpc' = "done"
                        /\ outcome' = "Completed"
                        /\ x' = [x EXCEPT !["worker"] = IdleX]
                        /\ UNCHANGED ip
         ELSE IF st \in {"fwerror", "timeout"} /\ ip > Len(Header) /\ ~IsFooterIp(nlayers, ip)
         THEN /\ ip' = Len(Program(nlayers)) - 1
              /\ wpc' = "stopchk"
              /\ x' = [x EXCEPT !["worker"] = IdleX]
              /\ UNCHANGED <<outcome, nlayers>>
         ELSE /\ Raise(CASE st = "fwerror" -> "FirmwareError"
                         [] st = "timeout" -> "Timeout"
                         [] st = "noconn" -> "NoConnection"
                         [] OTHER -> "IOError")
              /\ UNCHANGED <<ip, nlayers>>
    /\ ev' = "step"
    /\ UNCHANGED <<ser, drawing_thread, pause_event, stop_event, layers, live, upc, fwq, rx,
                   hist>>
    /\ UNCHANGED seqvars

\* _send_and_wait_ok returned or raised.  On return the sequencer either is
\* through (after the footer) or goes on to the next command; range(int(layers))
\* of the layer loop is evaluated when the last header command has returned,
\* and at the start of a layer the live parameters are validated (lines
\* 554-559) and the rectangle is fitted (line 559, _compute_centered_rect):
\* either may raise, whatever the operator has typed in by then.
SendReturn ==
    /\ wpc = "send"
    /\ x["worker"].st \in ResultSt
    /\ LET st == x["worker"].st
           n == IF ip = Len(Header) THEN layers ELSE nlayers IN
       IF st = "ok"
         THEN /\ nlayers' = n
              /\ IF ip < Len(Program(n))
                   THEN \/ /\ ip' = ip + 1
                           /\ wpc' = "stopchk"
                           /\ x' = [x EXCEPT !["worker"] = IdleX]
                           /\ UNCHANGED outcome
                        \/ /\ IsLayerStart(n, ip + 1)
                           /\ Raise("ParameterError")
                           /\ UNCHANGED ip
                   ELSE /\ wpc' = "done"
                        /\ outcome' = "Completed"
                        /\ x' = [x EXCEPT !["worker"] = IdleX]
                        /\ UNCHANGED ip
         ELSE /\ Raise(CASE st = "fwerror" -> "FirmwareError"
                         [] st = "timeout" -> "Timeout"
                         [] st = "noconn" -> "NoConnection"
                         [] OTHER -> "IOError")
              /\ UNCHANGED <<ip, nlayers>>
    /\ ev' = "step"
    /\ UNCHANGED <<ser, drawing_thread, pause_event, stop_event, layers, live, upc, fwq, rx,
                   hist>>
    /\ UNCHANGED seqvars

\* DrawingWorker.run, lines 164-167: the except branch emits error(str(e)) for
\* whatever exception left the loop, then finished -> the thread quits
WorkerExit ==
    /\ wpc = "done"
    /\ wpc' = "exited"
    /\ live' = live - 1
    /\ ip' = 1 /\ nlayers' = 0
    /\ ev' = IF outcome = "Completed" THEN "step" ELSE "error"
    /\ UNCHANGED <<ser, drawing_thread, pause_event, stop_event, layers, outcome, upc,
                   x, fwq, rx, hist>>
    /\ UNCHANGED seqvars


----------------------------------------------------------------------------
(* The ui context: the controller's public methods.  A method that does   *)
(* not block is one step; connect and disconnect are several.             *)

\* what start_drawing does once it has accepted the request (lines 381-401)
LaunchMutKeepFlags ==
    /\ drawing_thread' = TRUE
    /\ wpc' = "run"
    /\ ip' = 1 /\ nlayers' = 0
    /\ outcome' = "none"
    /\ live' = live + 1
    /\ hist' = NoHist
    /\ ev' = "step"
    /\ UNCHANGED <<ser, stop_event, pause_event, layers, upc, x, fwq, rx>>

Launch ==
    /\ stop_event' = FALSE
    /\ pause_event' = TRUE
    /\ drawing_thread' = TRUE
    /\ wpc' = "run"
    /\ ip' = 1 /\ nlayers' = 0
    /\ outcome' = "none"
    /\ live' = live + 1
    /\ hist' = NoHist
    /\ ev' = "step"
    /\ UNCHANGED <<ser, layers, upc, x, fwq, rx>>

\* a call that returns at its guard: nothing but the log changes
Refuse(op) ==
    /\ ev' = op
    /\ UNCHANGED <<ser, drawing_thread, pause_event, stop_event, layers, wpc, ip, nlayers,
                   outcome, live, upc, x, fwq, rx, hist>>

StartDrawingMutNoGuard ==
    /\ upc = "idle"
    /\ IF ser = "None" THEN Refuse("start_not_connected") ELSE Launch
    /\ UNCHANGED seqvars

StartDrawingMutClearFirst ==
    /\ upc = "idle"
    /\ IF ser = "None" \/ drawing_thread
         THEN /\ stop_event' = FALSE
              /\ pause_event' = TRUE
              /\ ev' = IF ser = "None" THEN "start_not_connected"
                       ELSE "start_already_running"
              /\ UNCHANGED <<ser, drawing_thread, layers, wpc, ip, nlayers,
                             outcome, live, upc, x, fwq, rx, hist>>
         ELSE Launch
    /\ UNCHANGED seqvars

\* start_drawing, lines 374-401
StartDrawing ==
    /\ upc = "idle"
    /\ IF ser = "None" THEN Refuse("start_not_connected")
       ELSE IF drawing_thread THEN Refuse("start_already_running")
       ELSE Launch
    /\ UNCHANGED seqvars

\* lines 413-415
DoPause ==
    /\ pause_event' = FALSE
    /\ hist' = IF stop_event THEN hist ELSE [pending |-> TRUE, wsp |-> 0]
    /\ ev' = "step"
    /\ UNCHANGED <<ser, drawing_thread, stop_event, layers, wpc, ip, nlayers,
                   outcome, live, upc, x, fwq, rx>>

\* lines 420-422
DoResumeMutClearsStop ==
    /\ pause_event' = TRUE
    /\ stop_event' = FALSE
    /\ hist' = NoHist
    /\ ev' = "step"
    /\ UNCHANGED <<ser, drawing_thread, layers, wpc, ip, nlayers,
                   outcome, live, upc, x, fwq, rx>>

DoResume ==
    /\ pause_event' = TRUE
    /\ hist' = NoHist
    /\ ev' = "step"
    /\ UNCHANGED <<ser, drawing_thread, stop_event, layers, wpc, ip, nlayers,
                   outcome, live, upc, x, fwq, rx>>

PauseDrawingMutNoGuard ==
    /\ upc = "idle"
    /\ DoPause
    /\ UNCHANGED seqvars

PauseDrawing ==
    /\ upc = "idle"
    /\ IF ~drawing_thread THEN Refuse("noop") ELSE DoPause
    /\ UNCHANGED seqvars

ResumeDrawing ==
    /\ upc = "idle"
    /\ IF ~drawing_thread THEN Refuse("noop") ELSE DoResume
    /\ UNCHANGED seqvars

TogglePause ==
    /\ upc = "idle"
    /\ IF ~drawing_thread THEN Refuse("noop")
       ELSE IF pause_event THEN DoPause ELSE DoResume
    /\ UNCHANGED seqvars

\* lines 435-436
DoStop ==
    /\ stop_event' = TRUE
    /\ pause_event' = TRUE

StopDrawing ==
    /\ upc = "idle"
    /\ IF ~drawing_thread THEN Refuse("noop")
       ELSE /\ DoStop
            /\ ev' = "step"
            /\ UNCHANGED <<ser, drawing_thread, layers, wpc, ip, nlayers,
                           outcome, live, upc, x, fwq, rx, hist>>
    /\ UNCHANGED seqvars

\* the slot queued by QThread.finished, run by the ui event loop
OnDrawingFinished ==
    /\ upc = "idle"
    /\ wpc = "exited"
    /\ drawing_thread' = FALSE
    /\ wpc' = "none"
    /\ ev' = "step"
    /\ UNCHANGED <<ser, pause_event, stop_event, layers, ip, nlayers,
                   outcome, live, upc, x, fwq, rx, hist>>
    /\ UNCHANGED seqvars

\* disconnect, lines 320-321: stop_drawing(), then the test of self.ser
Disconnect ==
    /\ upc = "idle"
    /\ IF drawing_thread
         THEN DoStop
         ELSE UNCHANGED <<stop_event, pause_event>>
    /\ upc' = IF ser = "None" THEN "idle" ELSE "disc_close"
    /\ ev' = "step"
    /\ UNCHANGED <<ser, drawing_thread, layers, wpc, ip, nlayers, outcome, live, x, fwq,
                   rx, hist>>
    /\ UNCHANGED seqvars

\* self.ser.close(): disconnect line 322 (at = "disc_close"), connect line 311
\* (at = "conn_close"); the bytes waiting in the port's input buffer are gone
SerClose(at, then) ==
    /\ upc = at
    /\ ser' = "Closed"
    /\ rx' = <<>>
    /\ upc' = then
    /\ ev' = "step"
    /\ UNCHANGED <<drawing_thread, pause_event, stop_event, layers, wpc, ip, nlayers,
                   outcome, live, x, fwq, hist>>
    /\ UNCHANGED seqvars

\* self.ser = None: disconnect line 323 (at = "disc_clear"), connect line 314
SerClear(at) ==
    /\ upc = at
    /\ ser' = "None"
    /\ upc' = "idle"
    /\ ev' = "step"
    /\ UNCHANGED <<drawing_thread, pause_event, stop_event, layers, wpc, ip, nlayers,
                   outcome, live, x, fwq, rx, hist>>
    /\ UNCHANGED seqvars

DisconnectClose == SerClose("disc_close", "disc_clear")
DisconnectClear == SerClear("disc_clear")
ConnectFailClose == SerClose("conn_close", "conn_clear")
ConnectFailClear == SerClear("conn_clear")

\* The Connect button is enabled only while the page shows "Disconnected"
\* (ui.py on_connection_changed), which is while self.ser is None.
ConnectEnabled == upc = "idle" /\ ser = "None"

\* connect, lines 276-283: no pyserial, or no port answers
ConnectNoPort ==
    /\ ConnectEnabled
    /\ Refuse("connect_no_port")
    /\ UNCHANGED seqvars

\* connect, line 286 (serial.Serial raising leaves self.ser None: lines 307-316)
ConnectOpen ==
    /\ ConnectEnabled
    /\ ser' = "Open"
    /\ upc' = "opened"
    /\ ev' = "step"
    /\ UNCHANGED <<drawing_thread, pause_event, stop_event, layers, wpc, ip, nlayers,
                   outcome, live, x, fwq, rx, hist>>
    /\ UNCHANGED seqvars

\* connect, lines 289-302: after the sleep, flush the input and send G28
ConnectHome ==
    /\ upc = "opened"
    /\ rx' = <<>>
    /\ x' = [x EXCEPT !["ui"] = NewCall("G28", ConnectTimeoutS)]
    /\ upc' = "homing"
    /\ ev' = "step"
    /\ UNCHANGED <<ser, drawing_thread, pause_event, stop_event, layers, wpc, ip, nlayers,
                   outcome, live, fwq, hist>>
    /\ UNCHANGED seqvars

\* connect, lines 304-316: homing done, or the except branch
ConnectReturn ==
    /\ upc = "homing"
    /\ x["ui"].st \in ResultSt
    /\ x' = [x EXCEPT !["ui"] = IdleX]
    /\ upc' = IF x["ui"].st = "ok" THEN "idle"
              ELSE IF ser = "None" THEN "idle" ELSE "conn_close"
    /\ ev' = "step"
    /\ UNCHANGED <<ser, drawing_thread, pause_event, stop_event, layers, wpc, ip, nlayers,
                   outcome, live, fwq, rx, hist>>
    /\ UNCHANGED seqvars

\* syringe_goto_ml: one write of two commands, no wait for an acknowledgment
SyringeGotoMl ==
    /\ upc = "idle"
    /\ IF ser = "None"
         THEN Refuse("noop")
         ELSE /\ Len(fwq) + 2 <= MaxFwSyr
              /\ fwq' = fwq \o <<"syringe", "syringe">>
              /\ ev' = "step"
              /\ UNCHANGED <<ser, drawing_thread, pause_event, stop_event, layers, wpc, ip,
                             nlayers, outcome, live, upc, x, rx, hist>>
    /\ UNCHANGED seqvars

\* syringe_intake_amount: three writes, four commands, no wait
SyringeIntakeAmount ==
    /\ upc = "idle"
    /\ IF ser = "None"
         THEN Refuse("noop")
         ELSE /\ Len(fwq) + 4 <= MaxFwSyr
              /\ fwq' = fwq \o <<"syringe", "syringe", "syringe", "syringe">>
              /\ ev' = "step"
              /\ UNCHANGED <<ser, drawing_thread, pause_event, stop_event, layers, wpc, ip,
                             nlayers, outcome, live, upc, x, rx, hist>>
    /\ UNCHANGED seqvars

----------------------------------------------------------------------------
(* The configuration and the geometry of the CustomCentered mode.          *)
(* Lengths are whole millimetres; the coordinates the planner derives are  *)
(* kept doubled (in half millimetres), so that the centre (min + max) / 2  *)
(* and the half length L / 2 are exact.                                    *)

\* Params, lines 25-61: the defaults of the fields the sequencer reads
\* (z_offset, z_hop and step in tenths of a millimetre: 0.4, 10.0 and 0.1)
DefaultParams ==
    [mode |-> "Legacy", orientation |-> "Horizontal", cups |-> 9, step |-> 1,
     speed |-> 1500, z_offset |-> 4, z_hop |-> 100,
     droplet_amount |-> 1, pause_ms |-> 0, afterdrop |-> TRUE, clean |-> TRUE,
     syringe_current_amount |-> 0,
     safe_x_min |-> 0, safe_x_max |-> 146, safe_y_min |-> 25, safe_y_max |-> 225,
     fiber_orientation |-> "Horizontal",
     fiber_length |-> 80, fiber_width |-> 40, fiber_spacing |-> 1]

\* _safe_center, lines 439-444 (xc and yc doubled)
SafeCenter(p) ==
    [x_min |-> p.safe_x_min, x_max |-> p.safe_x_max,
     y_min |-> p.safe_y_min, y_max |-> p.safe_y_max,
     xc |-> p.safe_x_min + p.safe_x_max, yc |-> p.safe_y_min + p.safe_y_max]

ComputeCenteredRectMutAnchored(p, length, width, orient) ==
    LET c == SafeCenter(p)
        x0 == 2 * c.x_min
        x1 == x0 + 2 * (IF orient = "Horizontal" THEN length ELSE width)
        y0 == 2 * (c.y_min + 20)
        y1 == y0 + 2 * (IF orient = "Horizontal" THEN width ELSE length)
    IN [x0 |-> x0, x1 |-> x1, y0 |-> y0, y1 |-> y1,
        fits |-> ~(x0 < 2 * c.x_min \/ x1 > 2 * c.x_max
                   \/ y0 < 2 * c.y_min \/ y1 > 2 * c.y_max)]

\* _compute_centered_rect, lines 446-469: the rectangle (doubled) and whether
\* the test of line 462 lets it through (fits = FALSE is the RuntimeError)
ComputeCenteredRect(p, length, width, orient) ==
    LET c == SafeCenter(p)
        x0 == IF orient = "Horizontal" THEN c.xc - length ELSE c.xc - width
        x1 == IF orient = "Horizontal" THEN c.xc + length ELSE c.xc + width
        y0 == IF orient = "Horizontal" THEN c.yc - width ELSE c.yc - length
        y1 == IF orient = "Horizontal" THEN c.yc + width ELSE c.yc + length
    IN [x0 |-> x0, x1 |-> x1, y0 |-> y0, y1 |-> y1,
        fits |-> ~(x0 < 2 * c.x_min \/ x1 > 2 * c.x_max
                   \/ y0 < 2 * c.y_min \/ y1 > 2 * c.y_max)]

NFibersMutRoundUp(W, S) == IF W = 0 THEN 1 ELSE ((W + S - 1) \div S) + 1

\* line 562, evaluated where W >= 0 and S > 0
NFibers(W, S) == IF W = 0 THEN 1 ELSE (W \div S) + 1

\* _clamp, lines 471-473
Max(a, b) == IF a >= b THEN a ELSE b
Min(a, b) == IF a <= b THEN a ELSE b
Clamp(v, lo, hi) == Max(lo, Min(hi, v))

\* a command as written to the transport: its text up to its numbers, and the
\* numbers (coordinates doubled, heights in tenths; f is the feed rate of a
\* command whose F is read from the configuration, 0 otherwise)
CmdF(op, a, b, f) == [op |-> op, a |-> a, b |-> b, f |-> f]

Cmd(op, a, b) == CmdF(op, a, b, 0)

\* the locals of _run_custom_centered before the method is entered
SeqIdle ==
    [pc |-> "idle", mode |-> "CustomCentered", k |-> 0, layer |-> 0, nlayers |-> 0, i |-> 0,
     lim |-> 0, lines_count |-> 0, a1 |-> 0, a2 |-> 0, a22 |-> 0, a3 |-> 0,
     pass |-> "", lim2 |-> 0, b1 |-> 0, b3 |-> 0,
     orient |-> "", L |-> 0, W |-> 0, S |-> 0,
     x0 |-> 0, x1 |-> 0, y0 |-> 0, y1 |-> 0, n_fibers |-> 0,
     speed |-> 0, zoff |-> 0, zhop |-> 0,
     pause_ms |-> 0, after |-> FALSE, clean |-> FALSE,
     pos |-> 0, xs |-> 0, xe |-> 0, x_a |-> 0, x_b |-> 0,
     exc |-> "",
     \* bookkeeping of the claims: the mode when start_drawing accepted the run,
     \* edits made, droplet_amount edited, an edit made since the line began, the ledger and the amount at run start, extrusion()
     \* and afterdrop() calls whose sends are done
     mode0 |-> "CustomCentered",
     nedits |-> 0, dedit |-> FALSE, ledit |-> FALSE, ledger0 |-> 0, d0 |-> 0, ndep |-> 0, nafter |-> 0,
     \* retract commands acknowledged
     nret |-> 0,
     \* the last positioning toggle the sequencer has written, in this run or
     \* in an earlier one ("" before the first), the same when the run began,
     \* and the number of the run
     toggle |-> "", toggle0 |-> "", run |-> 1]

----------------------------------------------------------------------------
(* Spec: the control surface, the worker and the firmware *)

Init ==
    /\ ser = "None"
    /\ drawing_thread = FALSE
    /\ pause_event = TRUE
    /\ stop_event = FALSE
    /\ layers \in 1..MaxLayers
    /\ wpc = "none"
    /\ ip = 1 /\ nlayers = 0
    /\ outcome = "none"
    /\ live = 0
    /\ upc = "idle"
    /\ x = [c \in Ctx |-> IdleX]
    /\ fwq = <<>>
    /\ rx = <<>>
    /\ ev = "step"
    /\ hist = NoHist
    /\ params = DefaultParams /\ seq = SeqIdle /\ sent = <<>>

Next ==
    \/ StartDrawing \/ PauseDrawing \/ ResumeDrawing \/ TogglePause \/ StopDrawing
    \/ OnDrawingFinished
    \/ Disconnect \/ DisconnectClose \/ DisconnectClear
    \/ ConnectNoPort \/ ConnectOpen \/ ConnectHome \/ ConnectReturn
    \/ ConnectFailClose \/ ConnectFailClear
    \/ RunDrawingLoop \/ SendChecked \/ WaitPause \/ WaitStop \/ SendReturn \/ WorkerExit
    \/ \E c \in Ctx : SendCheck(c) \/ SendWrite(c, MaxFw) \/ AwaitRead(c) \/ AwaitTimeout(c)
    \/ FwOk \/ FwError \/ Tick(TickS)

Spec == Init /\ [][Next]_vars

----------------------------------------------------------------------------
(* SpecSyringe: a run in flight while the syringe buttons are pressed *)

NextSyringe ==
    \/ StartDrawing \/ OnDrawingFinished
    \/ ConnectNoPort \/ ConnectOpen \/ ConnectHome \/ ConnectReturn
    \/ ConnectFailClose \/ ConnectFailClear
    \/ SyringeGotoMl \/ SyringeIntakeAmount
    \/ RunDrawingLoop \/ SendChecked \/ WaitPause \/ WaitStop \/ SendReturn \/ WorkerExit
    \/ \E c \in Ctx : SendCheck(c) \/ SendWrite(c, MaxFwSyr) \/ AwaitRead(c) \/ AwaitTimeout(c)
    \/ FwOk \/ FwBusy \/ FwError \/ Tick(TickS)

SpecSyringe == Init /\ [][NextSyringe]_vars

----------------------------------------------------------------------------
(* SpecProto: _send_and_wait_ok alone, called again and again with either *)
(* timeout, against a line channel that may deliver any line at any time  *)

InitProto ==
    /\ ser \in {"Open", "None"}
    /\ drawing_thread = FALSE
    /\ pause_event = TRUE
    /\ stop_event = FALSE
    /\ layers = 1
    /\ wpc = "none"
    /\ ip = 1 /\ nlayers = 0
    /\ outcome = "none"
    /\ live = 0
    /\ upc = "caller"
    /\ x = [c \in Ctx |-> IdleX]
    /\ fwq = <<>>
    /\ rx = <<>>
    /\ ev = "step"
    /\ hist = NoHist
    /\ params = DefaultParams /\ seq = SeqIdle /\ sent = <<>>

\* a caller on the ui context: connect (120 s) or syringe_home (30 s)
ProtoCall ==
    /\ upc = "caller" /\ x["ui"].st = "idle"
    /\ \E t \in {DefaultTimeoutS, ConnectTimeoutS} :
          x' = [x EXCEPT !["ui"] = NewCall("G28", t)]
    /\ ev' = "step"
    /\ UNCHANGED <<ser, drawing_thread, pause_event, stop_event, layers, wpc, ip, nlayers,
                   outcome, live, upc, fwq, rx, hist>>
    /\ UNCHANGED seqvars

ProtoReturn ==
    /\ upc = "caller" /\ x["ui"].st \in ResultSt
    /\ x' = [x EXCEPT !["ui"] = IdleX]
    /\ ev' = "step"
    /\ UNCHANGED <<ser, drawing_thread, pause_event, stop_event, layers, wpc, ip, nlayers,
                   outcome, live, upc, fwq, rx, hist>>
    /\ UNCHANGED seqvars

\* the channel delivers a line
ChanEmit ==
    /\ ser = "Open" /\ Len(rx) < MaxRx
    /\ \E line \in AllLines : rx' = Append(rx, line)
    /\ ev' = "step"
    /\ UNCHANGED <<ser, drawing_thread, pause_event, stop_event, layers, wpc, ip, nlayers,
                   outcome, live, upc, x, fwq, hist>>
    /\ UNCHANGED seqvars

\* the firmware takes a command without answering it
FwTake ==
    /\ fwq # <<>>
    /\ fwq' = Tail(fwq)
    /\ ev' = "step"
    /\ UNCHANGED <<ser, drawing_thread, pause_event, stop_event, layers, wpc, ip, nlayers,
                   outcome, live, upc, x, rx, hist>>
    /\ UNCHANGED seqvars

NextProto ==
    \/ ProtoCall \/ ProtoReturn
    \/ SendCheck("ui") \/ SendWrite("ui", MaxFw) \/ AwaitRead("ui") \/ AwaitTimeout("ui")
    \/ ChanEmit \/ FwTake \/ Tick(ProtoTickS)

SpecProto == InitProto /\ [][NextProto]_vars


----------------------------------------------------------------------------
(* The sequencer: _run_custom_centered, one step per send or evaluation.   *)
(* A send stands for a whole _send_checked call that returned.             *)

\* the safe rectangle of the small configurations
SmallSafe == [safe_x_min |-> 0, safe_x_max |-> 4, safe_y_min |-> 1, safe_y_max |-> 5]

\* the values a field is given during a run: by a widget (ui.py, lines 193-327)
\* or, outside the widget's range, by a loaded project (apply_project_dict)
Values(name) ==
    CASE name = "layers" -> 1..MaxCustomLayers
      [] name = "fiber_orientation" -> {"Horizontal", "Vertical"}
      [] name = "fiber_length" -> {0, 1, MaxLen}
      [] name = "fiber_width" -> {-1, 0, MaxWid}
      [] name = "fiber_spacing" -> {0, 1, MaxSpc}
      [] name = "droplet_amount" -> {1, 2}
      [] name = "pause_ms" -> {0, 500}
      [] name = "speed" -> {1500, 3000}
      [] name = "z_offset" -> {4, 10}
      [] name = "z_hop" -> {100, 200}
      [] name \in {"afterdrop", "clean"} -> BOOLEAN
      [] name = "safe_x_max" -> {SmallSafe.safe_x_max - 3, SmallSafe.safe_x_max}
      [] name = "safe_y_max" -> {SmallSafe.safe_y_max - 3, SmallSafe.safe_y_max}

\* the steps that are a send
SendPcs == {"header", "prologue", "deposit", "extrusion", "travel", "afterdrop",
            "cleaning", "barrier", "footer",
            "lg_header", "lg_prologue", "lg_iter", "lg_biter", "lg_footer"}

\* the fields the step the sequencer is at reads from the configuration
Reads ==
    CASE seq.pc = "loop" -> {"layers"}
      [] seq.pc = "layer" /\ seq.layer < seq.nlayers ->
            {"fiber_orientation", "fiber_length", "fiber_width", "fiber_spacing",
             "safe_x_max", "safe_y_max"}
      [] seq.pc = "prologue" /\ seq.k = 2 -> {"speed"}
      [] seq.pc = "line" /\ seq.i < seq.n_fibers ->
            {"fiber_spacing", "speed", "z_offset", "z_hop", "pause_ms", "afterdrop", "clean"}
      [] seq.pc \in {"extrusion", "afterdrop"} /\ seq.k = 2 -> {"droplet_amount"}
      [] seq.pc = "afterdrop" /\ seq.k = 5 -> {"speed"}
      [] seq.pc \in {"ex_ledger", "ad_ledger"} -> {"droplet_amount"}
      [] seq.pc = "clean" -> {"safe_x_max", "safe_y_max"}
      [] seq.pc = "lg_sweep" -> {"speed", "z_offset", "z_hop", "pause_ms"}
      [] seq.pc = "lg_iter" /\ seq.k \in {11, 28} -> {"afterdrop", "clean"}
      [] seq.pc = "lg_iter" /\ seq.k \in {5, 13, 22, 30} -> {"droplet_amount"}
      [] seq.pc = "lg_iter" /\ seq.k \in {16, 33} -> {"speed", "clean"}
      [] OTHER -> {}

\* an edit between two lines of a layer of a field that no step reads
\* before the next layer begins
BetweenLines ==
    IF seq.pc = "line" /\ 0 < seq.i /\ seq.i < seq.n_fibers THEN {"fiber_length"} ELSE {}

\* AppState.set_param, lines 72-76, called by the operator's widgets, or one
\* assignment of apply_project_dict, lines 115-147, while the run is in flight.  An edit is placed right before the step that reads the
\* field: an earlier edit of the same field gives the same run.
SetParam(name, value) ==
    /\ seq.nedits < MaxEdits
    /\ name \in Reads \cup BetweenLines
    /\ IF name = "layers"
         THEN value # layers /\ layers' = value /\ UNCHANGED params
         ELSE /\ value # params[name]
              /\ params' = [params EXCEPT ![name] = value]
              /\ UNCHANGED layers
    /\ seq' = [seq EXCEPT !.nedits = seq.nedits + 1,
                          !.dedit = seq.dedit \/ name = "droplet_amount",
                          !.ledit = TRUE]
    /\ UNCHANGED <<sent, ctlvars>>

\* the positioning mode after command c is written in mode t: G90 and G91
\* are the toggles (lines 517, 524, 527, 535, 538; 676, 685, 688, 696, 699)
Toggle(c, t) == IF c.op = "G90" THEN "abs" ELSE IF c.op = "G91" THEN "rel" ELSE t

\* one send returned: the command is written and acknowledged
Send(c, s2) ==
    /\ sent' = Append(sent, c)
    /\ seq' = [s2 EXCEPT !.toggle = Toggle(c, seq.toggle)]
    /\ UNCHANGED <<params, layers, ctlvars>>

\* an exception leaves _run_custom_centered or _run_legacy
SeqRaise(msg) == seq' = [seq EXCEPT !.pc = "failed", !.exc = msg]

\* _send_checked raises: before the write (line 500, 493, 496, 337) or after
\* it (lines 361, 363-366)
SendRaises ==
    /\ seq.pc \in SendPcs
    /\ \E written \in BOOLEAN :
          /\ seq' = [seq EXCEPT !.pc = "failed",
                                !.exc = IF written THEN "send failed" ELSE "Stopped",
                                \* the command written may have been a toggle
                                !.toggle = IF written THEN "?" ELSE seq.toggle]
          /\ sent' = IF written THEN Append(sent, Cmd("?", 0, 0)) ELSE sent
    /\ UNCHANGED <<params, layers, ctlvars>>

StrategyMutLive == params.mode

\* lines 484-487: the branch tests the local the read of line 483 has set
Strategy == seq.mode

\* _run_custom_centered is entered, line 511
RunCustomCentered ==
    /\ seq.pc = "idle"
    /\ Strategy = "CustomCentered"
    /\ seq' = [seq EXCEPT !.pc = "header", !.k = 1,
                          !.ledger0 = params.syringe_current_amount,
                          !.d0 = params.droplet_amount]
    /\ UNCHANGED <<params, sent, layers, ctlvars>>

\* lines 514-520
SeqHeader ==
    /\ seq.pc = "header"
    /\ Send(Cmd(Header[seq.k], 0, 0),
            IF seq.k < Len(Header) THEN [seq EXCEPT !.k = seq.k + 1]
            ELSE [seq EXCEPT !.pc = "loop"])

\* line 546: range(int(layers)) is evaluated once
LayerLoop ==
    /\ seq.pc = "loop"
    /\ seq' = [seq EXCEPT !.pc = "layer", !.layer = 0, !.nlayers = layers]
    /\ UNCHANGED <<params, sent, layers, ctlvars>>

LayerStartMutValidateOnce ==
    /\ seq.pc = "layer"
    /\ IF seq.layer >= seq.nlayers
         THEN seq' = [seq EXCEPT !.pc = "footer", !.k = 1]
         ELSE LET orient == params.fiber_orientation
                  L == params.fiber_length
                  W == params.fiber_width
                  S == params.fiber_spacing
                  r == ComputeCenteredRect(params, L, W, orient)
              IN IF seq.layer = 0 /\ (L <= 0 \/ W < 0)
                   THEN SeqRaise("Fiber length must be > 0 and width must be >= 0")
                 ELSE IF seq.layer = 0 /\ S <= 0
                   THEN SeqRaise("Fiber spacing must be > 0")
                 ELSE IF seq.layer = 0 /\ ~r.fits
                   THEN SeqRaise("Custom area does not fit safe bounds")
                 ELSE seq' = [seq EXCEPT !.pc = "prologue", !.k = 1, !.i = 0,
                                         !.orient = orient, !.L = L, !.W = W, !.S = S,
                                         !.x0 = r.x0, !.x1 = r.x1,
                                         !.y0 = r.y0, !.y1 = r.y1,
                                         !.n_fibers = NFibers(W, S)]
    /\ UNCHANGED <<params, sent, layers, ctlvars>>

\* lines 546-562: the next layer, its validation, its rectangle, its line count
LayerStart ==
    /\ seq.pc = "layer"
    /\ IF seq.layer >= seq.nlayers
         THEN seq' = [seq EXCEPT !.pc = "footer", !.k = 1]
         ELSE LET orient == params.fiber_orientation
                  L == params.fiber_length
                  W == params.fiber_width
                  S == params.fiber_spacing
                  r == ComputeCenteredRect(params, L, W, orient)
              IN IF L <= 0 \/ W < 0
                   THEN SeqRaise("Fiber length must be > 0 and width must be >= 0")
                 ELSE IF S <= 0
                   THEN SeqRaise("Fiber spacing must be > 0")
                 ELSE IF ~r.fits
                   THEN SeqRaise("Custom area does not fit safe bounds")
                 ELSE seq' = [seq EXCEPT !.pc = "prologue", !.k = 1, !.i = 0,
                                         !.orient = orient, !.L = L, !.W = W, !.S = S,
                                         !.x0 = r.x0, !.x1 = r.x1,
                                         !.y0 = r.y0, !.y1 = r.y1,
                                         !.n_fibers = NFibers(W, S)]
    /\ UNCHANGED <<params, sent, layers, ctlvars>>

\* lines 564-565
LayerPrologue ==
    /\ seq.pc = "prologue"
    /\ IF seq.k = 1
         THEN Send(Cmd("G90", 0, 0), [seq EXCEPT !.k = 2])
         ELSE Send(CmdF("G1 Z7", 0, 0, params.speed), [seq EXCEPT !.pc = "line"])

DirectionMutOneWay(i, lo, hi) == <<lo, hi>>

\* lines 583-586 and 625-628: the start side and the end side of line i
Direction(i, lo, hi) == IF i % 2 = 0 THEN <<lo, hi>> ELSE <<hi, lo>>

LineParamsMutPerLayer ==
    IF seq.i = 0
      THEN [speed |-> params.speed, zoff |-> params.z_offset, zhop |-> params.z_hop,
            pause_ms |-> params.pause_ms, after |-> params.afterdrop,
            clean |-> params.clean]
      ELSE [speed |-> seq.speed, zoff |-> seq.zoff, zhop |-> seq.zhop,
            pause_ms |-> seq.pause_ms, after |-> seq.after, clean |-> seq.clean]

\* lines 569-575: the parameters a line is written with, read when it begins
LineParams ==
    [speed |-> params.speed, zoff |-> params.z_offset, zhop |-> params.z_hop,
     pause_ms |-> params.pause_ms, after |-> params.afterdrop, clean |-> params.clean]

AbandonedMutNever(pos, far) == FALSE

\* lines 579-580 and 622-623: the line lies past the rectangle's far edge
\* (on the half-millimetre grid, where the epsilon of 1e-6 excludes nothing)
Abandoned(pos, far) == pos > far

\* lines 568-586 and 619-628: the next line, its live parameters, its
\* coordinate on the width axis (pos: y when Horizontal, x when Vertical),
\* the break, its direction (xs, xe: ys, ye when Vertical)
LineStart ==
    /\ seq.pc = "line"
    /\ LET hor == seq.orient = "Horizontal"
           pos == (IF hor THEN seq.y0 ELSE seq.x0) + 2 * (seq.i * params.fiber_spacing)
           far == IF hor THEN seq.y1 ELSE seq.x1
           lo == IF hor THEN seq.x0 ELSE seq.y0
           hi == IF hor THEN seq.x1 ELSE seq.y1
       IN IF seq.i >= seq.n_fibers \/ Abandoned(pos, far)
            THEN /\ seq' = [seq EXCEPT !.pc = "layer", !.layer = seq.layer + 1]
                 /\ UNCHANGED sent
            ELSE /\ seq' = [seq EXCEPT !.pc = "deposit", !.k = 1,
                                       !.speed = LineParams.speed,
                                       !.zoff = LineParams.zoff,
                                       !.zhop = LineParams.zhop,
                                       !.pause_ms = LineParams.pause_ms,
                                       !.after = LineParams.after,
                                       !.clean = LineParams.clean,
                                       !.ledit = FALSE,
                                       !.pos = pos,
                                       !.xs = Direction(seq.i, lo, hi)[1],
                                       !.xe = Direction(seq.i, lo, hi)[2]]
                 /\ sent' = <<>>
    /\ UNCHANGED <<params, layers, ctlvars>>

\* a move to a point of the line: X along the length when Horizontal
MoveTo(along) ==
    IF seq.orient = "Horizontal" THEN CmdF("G1 X Y", along, seq.pos, seq.speed)
    ELSE CmdF("G1 X Y", seq.pos, along, seq.speed)

\* lines 589-590 and 630-631
LineDeposit ==
    /\ seq.pc = "deposit"
    /\ IF seq.k = 1
         THEN Send(MoveTo(seq.xs), [seq EXCEPT !.k = 2])
         ELSE Send(CmdF("G1 Z", seq.zoff, 0, seq.speed),
                   [seq EXCEPT !.pc = "extrusion", !.k = 1])

\* the four sends of extrusion() and the first four of afterdrop()
RetractMutTogglesSwapped(dwell) ==
    CASE seq.k = 1 -> Cmd("G90", 0, 0)
      [] seq.k = 2 -> Cmd("G1 E-", params.droplet_amount, 0)
      [] seq.k = 3 -> Cmd(dwell, 0, 0)
      [] seq.k = 4 -> Cmd("G91", 0, 0)

Retract(dwell) ==
    CASE seq.k = 1 -> Cmd("G91", 0, 0)
      [] seq.k = 2 -> Cmd("G1 E-", params.droplet_amount, 0)
      [] seq.k = 3 -> Cmd(dwell, 0, 0)
      [] seq.k = 4 -> Cmd("G90", 0, 0)

\* extrusion(), lines 523-527
Extrusion ==
    /\ seq.pc = "extrusion"
    /\ Send(Retract("G4 P1000"),
            IF seq.k < 4 THEN [seq EXCEPT !.k = seq.k + 1,
                                          !.nret = IF seq.k = 2 THEN seq.nret + 1 ELSE seq.nret]
            ELSE [seq EXCEPT !.pc = "ex_ledger", !.ndep = seq.ndep + 1])

LedgerMutOncePerLine(pc2) ==
    /\ params' = [params EXCEPT !.syringe_current_amount =
                      IF seq.pc = "ex_ledger"
                        THEN params.syringe_current_amount - params.droplet_amount
                        ELSE params.syringe_current_amount]
    /\ seq' = [seq EXCEPT !.pc = pc2, !.k = 1]
    /\ UNCHANGED <<sent, layers, ctlvars>>

\* lines 528-531 and 540-543: the ledger is decremented by the live amount
Ledger(pc2) ==
    /\ params' = [params EXCEPT !.syringe_current_amount =
                      params.syringe_current_amount - params.droplet_amount]
    /\ seq' = [seq EXCEPT !.pc = pc2, !.k = 1]
    /\ UNCHANGED <<sent, layers, ctlvars>>

ExtrusionLedger ==
    /\ seq.pc = "ex_ledger"
    /\ Ledger("travel")

AfterLandingMutCleanFirst ==
    IF seq.clean THEN "clean" ELSE IF seq.after THEN "afterdrop" ELSE "barrier"

\* where the line goes on after its second landing
AfterLanding == IF seq.after THEN "afterdrop" ELSE IF seq.clean THEN "clean" ELSE "barrier"

\* lines 592-598 and 633-638
LineTravel ==
    /\ seq.pc = "travel"
    /\ CASE seq.k = 1 -> Send(CmdF("G1 Z", seq.zhop, 0, seq.speed),
                              [seq EXCEPT !.k = IF seq.pause_ms # 0 THEN 2 ELSE 3])
         [] seq.k = 2 -> Send(Cmd("G4 P", seq.pause_ms, 0), [seq EXCEPT !.k = 3])
         [] seq.k = 3 -> Send(MoveTo(seq.xe), [seq EXCEPT !.k = 4])
         [] seq.k = 4 -> Send(CmdF("G1 Z", seq.zoff, 0, seq.speed),
                              [seq EXCEPT !.pc = AfterLanding, !.k = 1])

\* afterdrop(), lines 534-539
Afterdrop ==
    /\ seq.pc = "afterdrop"
    /\ IF seq.k <= 4
         THEN Send(Retract("G4 P500"),
                   [seq EXCEPT !.k = seq.k + 1,
                               !.nret = IF seq.k = 2 THEN seq.nret + 1 ELSE seq.nret])
         ELSE Send(CmdF("G1 F", 0, 0, params.speed),
                   [seq EXCEPT !.pc = "ad_ledger", !.nafter = seq.nafter + 1])

AfterdropLedger ==
    /\ seq.pc = "ad_ledger"
    /\ Ledger(IF seq.clean THEN "clean" ELSE "barrier")

\* lines 605-612 and 644-650: the two targets past the end of the line
CleanTargets ==
    /\ seq.pc = "clean"
    /\ LET c == SafeCenter(params)
           hor == seq.orient = "Horizontal"
           lo == 2 * (IF hor THEN c.x_min ELSE c.y_min)
           hi == 2 * (IF hor THEN c.x_max ELSE c.y_max)
           mid2 == IF hor THEN seq.x0 + seq.x1 ELSE seq.y0 + seq.y1
           up == 2 * seq.xe >= mid2
       IN seq' = [seq EXCEPT !.pc = "cleaning", !.k = 1,
                      !.x_a = Clamp(IF up THEN seq.xe + 10 ELSE seq.xe - 10, lo, hi),
                      !.x_b = Clamp(IF up THEN seq.xe + 20 ELSE seq.xe - 20, lo, hi)]
    /\ UNCHANGED <<params, sent, layers, ctlvars>>

\* lines 613-615 and 651-653
Clean ==
    /\ seq.pc = "cleaning"
    /\ LET axis == IF seq.orient = "Horizontal" THEN "X" ELSE "Y" IN
       CASE seq.k = 1 -> Send(CmdF("G1 " \o axis \o " Z0", seq.x_a, 0, seq.speed),
                              [seq EXCEPT !.k = 2])
         [] seq.k = 2 -> Send(CmdF("G1 " \o axis, seq.x_b, 0, seq.speed),
                              [seq EXCEPT !.k = 3])
         [] seq.k = 3 -> Send(CmdF("G1 Z3", 0, 0, seq.speed), [seq EXCEPT !.pc = "barrier"])

\* lines 617 and 655
LineBarrier ==
    /\ seq.pc = "barrier"
    /\ Send(Cmd("M400", 0, 0), [seq EXCEPT !.pc = "line", !.i = seq.i + 1])

\* the point of the parking move, "G0 X10 Y190 Z30 F3000", in millimetres
ParkX == 10
ParkY == 190

\* lines 658-659
SeqFooter ==
    /\ seq.pc = "footer"
    /\ Send(IF seq.k = Len(Footer) THEN Cmd(Footer[seq.k], 2 * ParkX, 2 * ParkY)
            ELSE Cmd(Footer[seq.k], 0, 0),
            IF seq.k < Len(Footer) THEN [seq EXCEPT !.k = seq.k + 1]
            ELSE [seq EXCEPT !.pc = "done"])

Sequencer ==
    \/ RunCustomCentered \/ SeqHeader \/ LayerLoop \/ LayerStart \/ LayerPrologue
    \/ LineStart \/ LineDeposit \/ Extrusion \/ ExtrusionLedger \/ LineTravel
    \/ Afterdrop \/ AfterdropLedger \/ CleanTargets \/ Clean \/ LineBarrier \/ SeqFooter

----------------------------------------------------------------------------
(* The Legacy sequencer, _run_legacy, for the orientations Horizontal and  *)
(* Vertical, and for any other orientation the branch of "Both", lines     *)
(* 832-897, a Horizontal pass then a Vertical pass of one deposition per   *)
(* line (seq.pass), which only SpecSweep has.  Coordinates are doubled, the step  *)
(* is in tenths of a millimetre and a multiple of 5.  A sweep iteration    *)
(* writes a forward line and a return line; seq.k is the position in the   *)
(* iteration's commands, seq.pos the swept coordinate (y when Horizontal). *)

\* _run_drawing_loop, lines 483-487: the mode is read and the strategy chosen
ModeSelect ==
    /\ seq.pc = "called"
    /\ seq' = [seq EXCEPT !.pc = "idle", !.mode = params.mode]
    /\ UNCHANGED <<params, sent, layers, ctlvars>>

\* the operator picks the other mode, ui.py line 193; where it is placed does
\* not matter but for the read of ModeSelect, so a few places stand for all
SetMode(m) ==
    /\ seq.nedits < MaxEdits
    /\ seq.pc \in {"called", "idle", "layer", "lg_layer"}
    /\ m # params.mode
    /\ params' = [params EXCEPT !.mode = m]
    /\ seq' = [seq EXCEPT !.nedits = seq.nedits + 1]
    /\ UNCHANGED <<sent, layers, ctlvars>>

\* _run_legacy is entered, line 487
RunLegacy ==
    /\ seq.pc = "idle"
    /\ Strategy # "CustomCentered"
    /\ seq' = [seq EXCEPT !.pc = "lg_header", !.k = 1,
                          !.ledger0 = params.syringe_current_amount,
                          !.d0 = params.droplet_amount]
    /\ UNCHANGED <<params, sent, layers, ctlvars>>

LegacyHeaderMutPositioningLast ==
    <<"M220 S100", "M302 S0", "M221 S100", "M82", "G1 Z2 F1500", "G92 E0", "G90">>

\* lines 673-679
LegacyHeader ==
    <<"M220 S100", "M302 S0", "M221 S100", "G90", "M82", "G1 Z2 F1500", "G92 E0">>

LegacySeqHeader ==
    /\ seq.pc = "lg_header"
    /\ Send(Cmd(LegacyHeader[seq.k], 0, 0),
            IF seq.k < Len(LegacyHeader) THEN [seq EXCEPT !.k = seq.k + 1]
            ELSE [seq EXCEPT !.pc = "lg_loop"])

\* line 706: range(int(layers)) is evaluated once
LegacyLayerLoop ==
    /\ seq.pc = "lg_loop"
    /\ seq' = [seq EXCEPT !.pc = "lg_layer", !.layer = 0, !.nlayers = layers]
    /\ UNCHANGED <<params, sent, layers, ctlvars>>

\* _limits_from_cups, lines 662-667 (doubled)
LimitsFromCups(cups) ==
    CASE cups = 9 -> [x |-> 2 * 117, y |-> 2 * 172]
      [] cups = 6 -> [x |-> 2 * 91, y |-> 2 * 145]
      [] OTHER -> [x |-> 2 * 63, y |-> 2 * 117]

\* round(n / d) as Python rounds: to the nearest, a tie to the even one
Round(n, d) ==
    LET q == n \div d
        r == n % d
    IN IF 2 * r < d THEN q
       ELSE IF 2 * r > d THEN q + 1
       ELSE IF q % 2 = 0 THEN q ELSE q + 1

\* lines 711-712: 82.5 / (step / 2), and 82.5 / 1e-6 for a step of 0
LinesCount(step) == IF step = 0 THEN ZeroStepLines ELSE Round(1650, step)

\* lines 707-726: orientation, limit, line count and the offsets of the layer
\* (a1, a2, a22, a3 are x1, x2, x22, x3 when Horizontal, y1, y2, y22, y3
\* when Vertical)
LegacyLayerStart ==
    /\ seq.pc = "lg_layer"
    /\ IF seq.layer >= seq.nlayers
         THEN seq' = [seq EXCEPT !.pc = "lg_footer", !.k = 1]
         ELSE LET hor == params.orientation # "Vertical"
                  both == params.orientation \notin {"Horizontal", "Vertical"} IN
              seq' = [seq EXCEPT
                            !.pc = "lg_prologue", !.k = 1,
                            !.orient = IF both THEN "Both" ELSE params.orientation,
                            !.lim2 = LimitsFromCups(params.cups).x,
                            !.b1 = 2 * 79 - 6 * seq.layer,
                            !.b3 = 363 + 6 * seq.layer,
                            !.lim = IF hor THEN LimitsFromCups(params.cups).y
                                    ELSE LimitsFromCups(params.cups).x,
                            !.lines_count = LinesCount(params.step),
                            !.a1 = (IF hor THEN 51 ELSE 2 * 79) - 6 * seq.layer,
                            !.a2 = IF hor THEN 2 * 128 ELSE 363,
                            !.a22 = IF hor THEN 51 ELSE 2 * 79 - 6 * seq.layer,
                            !.a3 = (IF hor THEN 2 * 128 ELSE 363) + 6 * seq.layer]
    /\ UNCHANGED <<params, sent, layers, ctlvars>>

\* lines 725-726, then line 729 or 781: the sweep starts at y = 90 or x = 36;
\* line 836: the Horizontal pass of "Both" starts at y = 89
LegacyPrologue ==
    /\ seq.pc = "lg_prologue"
    /\ IF seq.k = 1
         THEN Send(Cmd("G90", 0, 0), [seq EXCEPT !.k = 2])
         ELSE Send(CmdF("G1 Z7", 0, 0, params.speed),
                   IF seq.orient = "Both"
                     THEN [seq EXCEPT !.pc = "lg_bsweep", !.pass = "H", !.i = 0, !.pos = 2 * 89]
                     ELSE [seq EXCEPT !.pc = "lg_sweep", !.i = 0,
                                      !.pos = IF seq.orient = "Horizontal" THEN 2 * 90
                                              ELSE 2 * 36])

\* lines 730-738 and 782-790: the loop test, the break, the live parameters
LegacyIterStart ==
    /\ seq.pc = "lg_sweep"
    /\ IF seq.i >= seq.lines_count \/ seq.pos >= seq.lim
         THEN /\ seq' = [seq EXCEPT !.pc = "lg_layer", !.layer = seq.layer + 1]
              /\ UNCHANGED sent
         ELSE /\ seq' = [seq EXCEPT !.pc = "lg_iter", !.k = 1, !.ledit = FALSE,
                                    !.speed = params.speed,
                                    !.zoff = params.z_offset,
                                    !.zhop = params.z_hop,
                                    !.pause_ms = params.pause_ms]
              /\ sent' = <<>>
    /\ UNCHANGED <<params, layers, ctlvars>>

\* the sends of extrusion() and the first four of afterdrop(), lines 683-703
LegacyRetract(j, dwell) ==
    CASE j = 1 -> Cmd("G91", 0, 0)
      [] j = 2 -> Cmd("G1 E-", params.droplet_amount, 0)
      [] j = 3 -> Cmd(dwell, 0, 0)
      [] j = 4 -> Cmd("G90", 0, 0)

\* lines 740-777 and 792-829: the command at position k of the iteration
LegacyCmd(k) ==
    LET hor == seq.orient = "Horizontal"
        axis == IF hor THEN "X" ELSE "Y"
        XY(op, along) == IF hor THEN Cmd(op, along, seq.pos) ELSE Cmd(op, seq.pos, along)
    IN CASE k = 1 -> Cmd("G90", 0, 0)
         [] k = 2 -> IF hor THEN CmdF("G1 X Y", seq.a1, seq.pos, seq.speed)
                     ELSE CmdF("G1 X Y", seq.pos, seq.a1, seq.speed)
         [] k = 3 -> CmdF("G1 Z", seq.zoff, 0, seq.speed)
         [] k \in 4..7 -> LegacyRetract(k - 3, "G4 P1000")
         [] k = 8 -> CmdF("G1 Z", seq.zhop, 0, seq.speed)
         [] k = 9 -> Cmd("G4 P", seq.pause_ms, 0)
         [] k = 10 -> Cmd("G1 " \o axis, seq.a2, 0)
         [] k = 11 -> CmdF(IF hor THEN "G1 X Z" ELSE "G1 Z Y", seq.a3, seq.zoff, seq.speed)
         [] k \in 12..15 -> LegacyRetract(k - 11, "G4 P500")
         [] k = 16 -> CmdF("G1 F", 0, 0, params.speed)
         [] k = 17 -> CmdF("G1 " \o axis \o " Z0", seq.a3 + 10, 0, seq.speed)
         [] k = 18 -> CmdF("G1 " \o axis, seq.a3 + 20, 0, seq.speed)
         [] k = 19 -> CmdF("G1 Z3", 0, 0, seq.speed)
         [] k = 20 -> XY("G1 X Y Z", seq.a3)
         [] k \in 21..24 -> LegacyRetract(k - 20, "G4 P1000")
         [] k = 25 -> CmdF("G1 Z", seq.zhop, 0, seq.speed)
         [] k = 26 -> Cmd("G4 P", seq.pause_ms, 0)
         [] k = 27 -> CmdF("G1 " \o axis, seq.a22, 0, seq.speed)
         [] k = 28 -> CmdF(IF hor THEN "G1 Z X" ELSE "G1 Z Y", seq.a1, seq.zoff, seq.speed)
         [] k \in 29..32 -> LegacyRetract(k - 28, "G4 P500")
         [] k = 33 -> CmdF("G1 F", 0, 0, params.speed)
         [] k = 34 -> CmdF("G1 " \o axis \o " Z0", seq.a1 - 10, 0, seq.speed)
         [] k = 35 -> CmdF("G1 " \o axis, seq.a1 - 20, 0, seq.speed)
         [] k = 36 -> CmdF("G1 Z3", 0, 0, seq.speed)
         [] k = 37 -> Cmd("M400", 0, 0)

\* the position after position k: the dwell under "if pause_ms", afterdrop()
\* and the clean moves under the live afterdrop and clean
LegacyNext(k) ==
    CASE k \in {8, 25} -> IF seq.pause_ms # 0 THEN k + 1 ELSE k + 2
      [] k = 11 -> IF params.afterdrop THEN 12 ELSE IF params.clean THEN 17 ELSE 20
      [] k = 16 -> IF params.clean THEN 17 ELSE 20
      [] k = 28 -> IF params.afterdrop THEN 29 ELSE IF params.clean THEN 34 ELSE 37
      [] k = 33 -> IF params.clean THEN 34 ELSE 37
      [] OTHER -> k + 1

\* one send of the iteration, with what follows it before the next send: the
\* ledger after extrusion() and afterdrop() (lines 688-691, 700-703), the step
\* of the swept coordinate (lines 761 and 776), the end of the iteration
LegacyIter ==
    /\ seq.pc = "lg_iter"
    /\ LET k2 == LegacyNext(seq.k)
           stepped == (seq.k < 20 /\ k2 = 20) \/ (seq.k < 37 /\ k2 = 37)
           pos2 == IF stepped THEN seq.pos + (params.step \div 5) ELSE seq.pos
       IN /\ sent' = Append(sent, LegacyCmd(seq.k))
          /\ seq' = IF seq.k = 37
                      THEN [seq EXCEPT !.pc = "lg_sweep", !.i = seq.i + 1]
                      ELSE [seq EXCEPT !.k = k2, !.pos = pos2,
                                       !.toggle = Toggle(LegacyCmd(seq.k), seq.toggle),
                                       !.nret = IF seq.k \in {5, 13, 22, 30} THEN seq.nret + 1
                                                ELSE seq.nret,
                                       !.ndep = IF seq.k \in {7, 24} THEN seq.ndep + 1
                                                ELSE seq.ndep,
                                       !.nafter = IF seq.k \in {16, 33} THEN seq.nafter + 1
                                                  ELSE seq.nafter]
          /\ params' = IF seq.k \in {7, 16, 24, 33}
                         THEN [params EXCEPT !.syringe_current_amount =
                                   params.syringe_current_amount - params.droplet_amount]
                         ELSE params
    /\ UNCHANGED <<layers, ctlvars>>

PassEndsMutNextLayer(pass) ==
    IF pass = "H" THEN <<seq.a1, seq.a3>> ELSE <<seq.b1 - 6, seq.b3 + 6>>

\* lines 848, 855, 860-861 and 880, 887, 892-893: the two ends of a line of
\* the pass, x1 and x3 of the layer in the Horizontal pass, y1 and y3 of the
\* layer in the Vertical pass
PassEnds(pass) ==
    IF pass = "H" THEN <<seq.a1, seq.a3>> ELSE <<seq.b1, seq.b3>>

\* lines 837-845 and 869-877: the loop test and the break of a pass of
\* "Both", the live parameters; the Vertical pass (line 868: x = 35.5) follows
\* the Horizontal pass, the next layer follows the Vertical pass
BothIterStart ==
    /\ seq.pc = "lg_bsweep"
    /\ IF seq.i >= seq.lines_count
          \/ seq.pos >= (IF seq.pass = "H" THEN seq.lim ELSE seq.lim2)
         THEN /\ seq' = IF seq.pass = "H"
                          THEN [seq EXCEPT !.pass = "V", !.i = 0, !.pos = 71]
                          ELSE [seq EXCEPT !.pc = "lg_layer", !.layer = seq.layer + 1]
              /\ UNCHANGED sent
         ELSE /\ seq' = [seq EXCEPT !.pc = "lg_biter", !.k = 1, !.ledit = FALSE,
                                    !.speed = params.speed,
                                    !.zoff = params.z_offset,
                                    !.zhop = params.z_hop,
                                    !.pause_ms = params.pause_ms]
              /\ sent' = <<>>
    /\ UNCHANGED <<params, layers, ctlvars>>

\* lines 847-865 and 879-897: the command at position k of an iteration of a
\* pass of "Both"
BothCmd(k) ==
    LET hor == seq.pass = "H"
        axis == IF hor THEN "X" ELSE "Y"
        XY(along) == IF hor THEN CmdF("G1 X Y", along, seq.pos, seq.speed)
                     ELSE CmdF("G1 X Y", seq.pos, along, seq.speed)
    IN CASE k = 1 -> Cmd("G90", 0, 0)
         [] k = 2 -> XY(PassEnds(seq.pass)[1])
         [] k = 3 -> CmdF("G1 Z", seq.zoff, 0, seq.speed)
         [] k \in 4..7 -> LegacyRetract(k - 3, "G4 P1000")
         [] k = 8 -> CmdF("G1 Z", seq.zhop, 0, seq.speed)
         [] k = 9 -> Cmd("G4 P", seq.pause_ms, 0)
         [] k = 10 -> XY(PassEnds(seq.pass)[2])
         [] k = 11 -> CmdF("G1 Z", seq.zoff, 0, seq.speed)
         [] k \in 12..15 -> LegacyRetract(k - 11, "G4 P500")
         [] k = 16 -> CmdF("G1 F", 0, 0, params.speed)
         [] k = 17 -> CmdF("G1 " \o axis \o " Z0", PassEnds(seq.pass)[2] + 10, 0, seq.speed)
         [] k = 18 -> CmdF("G1 " \o axis, PassEnds(seq.pass)[2] + 20, 0, seq.speed)
         [] k = 19 -> CmdF("G1 Z3", 0, 0, seq.speed)
         [] k = 20 -> Cmd("M400", 0, 0)

\* one send of an iteration of a pass of "Both", with what follows it before
\* the next send: the dwell under "if pause_ms", afterdrop() and the clean
\* moves under the live afterdrop and clean, the ledger after extrusion() and
\* afterdrop(), the step of the swept coordinate (lines 864 and 896)
BothIter ==
    /\ seq.pc = "lg_biter"
    /\ LET k == seq.k
           k2 == CASE k = 8 -> IF seq.pause_ms # 0 THEN 9 ELSE 10
                   [] k = 11 -> IF params.afterdrop THEN 12 ELSE IF params.clean THEN 17 ELSE 20
                   [] k = 16 -> IF params.clean THEN 17 ELSE 20
                   [] OTHER -> k + 1
       IN /\ sent' = Append(sent, BothCmd(k))
          /\ seq' = IF k = 20
                      THEN [seq EXCEPT !.pc = "lg_bsweep", !.i = seq.i + 1]
                      ELSE [seq EXCEPT !.k = k2,
                                       !.toggle = Toggle(BothCmd(k), seq.toggle),
                                       !.pos = IF k2 = 20 THEN seq.pos + (params.step \div 5)
                                               ELSE seq.pos,
                                       !.nret = IF k \in {5, 13} THEN seq.nret + 1 ELSE seq.nret,
                                       !.ndep = IF k = 7 THEN seq.ndep + 1 ELSE seq.ndep,
                                       !.nafter = IF k = 16 THEN seq.nafter + 1
                                                  ELSE seq.nafter]
          /\ params' = IF k \in {7, 16}
                         THEN [params EXCEPT !.syringe_current_amount =
                                   params.syringe_current_amount - params.droplet_amount]
                         ELSE params
    /\ UNCHANGED <<layers, ctlvars>>

\* lines 900-901
LegacyFooter ==
    /\ seq.pc = "lg_footer"
    /\ Send(IF seq.k = Len(Footer) THEN Cmd(Footer[seq.k], 2 * ParkX, 2 * ParkY)
            ELSE Cmd(Footer[seq.k], 0, 0),
            IF seq.k < Len(Footer) THEN [seq EXCEPT !.k = seq.k + 1]
            ELSE [seq EXCEPT !.pc = "done"])

LegacySequencer ==
    \/ RunLegacy \/ LegacySeqHeader \/ LegacyLayerLoop \/ LegacyLayerStart
    \/ LegacyPrologue \/ LegacyIterStart \/ LegacyIter \/ LegacyFooter

----------------------------------------------------------------------------
(* SpecCustom: one CustomCentered run over a small safe rectangle, with    *)
(* operator edits and failing sends                                        *)

CtlRunning ==
    /\ ser = "Open"
    /\ drawing_thread = TRUE
    /\ pause_event = TRUE
    /\ stop_event = FALSE
    /\ wpc = "send"
    /\ ip = 1 /\ nlayers = 0
    /\ outcome = "none"
    /\ live = 1
    /\ upc = "idle"
    /\ x = [c \in Ctx |-> IdleX]
    /\ fwq = <<>>
    /\ rx = <<>>
    /\ ev = "step"
    /\ hist = NoHist

\* the configuration before the run: a 2 x 1 mm area in the small safe rectangle
SmallParams ==
    [DefaultParams EXCEPT
        !.safe_x_min = SmallSafe.safe_x_min, !.safe_x_max = SmallSafe.safe_x_max,
        !.safe_y_min = SmallSafe.safe_y_min, !.safe_y_max = SmallSafe.safe_y_max,
        !.fiber_length = 2, !.fiber_width = 1, !.fiber_spacing = 1]

InitCustom ==
    /\ CtlRunning
    /\ layers \in 1..MaxCustomLayers
    /\ \E o \in {"Horizontal", "Vertical"}, d \in {1, 2} :
          params = [SmallParams EXCEPT !.fiber_orientation = o, !.droplet_amount = d]
    /\ seq = SeqIdle
    /\ sent = <<>>

EditNames ==
    {"layers", "fiber_orientation", "fiber_length", "fiber_width", "fiber_spacing",
     "speed", "z_offset", "z_hop",
     "droplet_amount", "pause_ms", "afterdrop", "clean", "safe_x_max", "safe_y_max"}

NextCustom ==
    \/ Sequencer
    \/ SendRaises
    \/ \E name \in EditNames : \E value \in Values(name) : SetParam(name, value)

SpecCustom == InitCustom /\ [][NextCustom]_vars

----------------------------------------------------------------------------
(* SpecModes: a run from the moment start_drawing has started the worker   *)
(* thread, in either mode, over the default configuration, with a change   *)
(* of the mode or of a motion parameter by the operator                    *)

\* the steps the operator can set that make one sweep iteration per layer
LegacySteps == {410}

InitModes ==
    /\ CtlRunning
    /\ layers \in 1..MaxLegacyLayers
    /\ \E m \in {"Legacy", "CustomCentered"}, o \in {"Horizontal", "Vertical"},
          st \in LegacySteps :
          /\ params = [DefaultParams EXCEPT !.mode = m, !.orientation = o, !.step = st,
                                            !.fiber_orientation = o, !.fiber_width = 2]
          /\ seq = [SeqIdle EXCEPT !.pc = "called", !.mode = "", !.mode0 = m]
    /\ sent = <<>>

\* the fields of the motion, which the operator edits during the run
MotionNames ==
    {"speed", "z_offset", "z_hop", "droplet_amount", "pause_ms", "afterdrop", "clean"}

NextModes ==
    \/ ModeSelect
    \/ \E m \in {"Legacy", "CustomCentered"} : SetMode(m)
    \/ \E name \in MotionNames : \E value \in Values(name) : SetParam(name, value)
    \/ Sequencer
    \/ LegacySequencer

SpecModes == InitModes /\ [][NextModes]_vars

----------------------------------------------------------------------------
(* SpecSweep: one Legacy run with every command acknowledged, for the      *)
(* three orientations, the three cup settings and steps of 30 and 41 mm    *)

InitSweep ==
    /\ CtlRunning
    /\ layers \in 1..MaxSweepLayers
    /\ \E o \in {"Horizontal", "Vertical", "Both"}, c \in {3, 6, 9}, st \in {300, 410},
          a \in BOOLEAN, cl \in BOOLEAN :
          params = [DefaultParams EXCEPT !.mode = "Legacy", !.orientation = o, !.cups = c,
                                         !.step = st, !.afterdrop = a, !.clean = cl]
    /\ seq = [SeqIdle EXCEPT !.mode = "Legacy", !.mode0 = "Legacy"]
    /\ sent = <<>>

NextSweep ==
    \/ LegacySequencer
    \/ BothIterStart
    \/ BothIter

SpecSweep == InitSweep /\ [][NextSweep]_vars

----------------------------------------------------------------------------
(* SpecRuns: runs started one after the other on the same controller, in   *)
(* either mode, each of which may be left by a failing or cancelled send   *)

InitRuns ==
    /\ CtlRunning
    /\ layers \in {0, 1}
    /\ \E m \in {"Legacy", "CustomCentered"}, o \in {"Horizontal", "Both"}, a \in BOOLEAN :
          /\ params = [DefaultParams EXCEPT !.mode = m, !.orientation = o, !.step = 410,
                                            !.fiber_width = 2, !.afterdrop = a]
          /\ seq = [SeqIdle EXCEPT !.mode = m, !.mode0 = m]
    /\ sent = <<>>

\* the run has left _run_drawing_loop and the thread is gone; start_drawing
\* is accepted again (lines 374-401) and the new worker reads the mode the
\* operator has selected in between (line 483)
Restart ==
    /\ seq.pc \in {"done", "failed"}
    /\ seq.run < MaxRuns
    /\ \E m \in {"Legacy", "CustomCentered"} :
          /\ params' = [params EXCEPT !.mode = m]
          /\ seq' = [SeqIdle EXCEPT !.mode = m, !.mode0 = m,
                                    !.toggle = seq.toggle, !.toggle0 = seq.toggle,
                                    !.run = seq.run + 1]
    /\ sent' = <<>>
    /\ UNCHANGED <<layers, ctlvars>>

NextRuns ==
    \/ Sequencer
    \/ LegacySequencer
    \/ BothIterStart
    \/ BothIter
    \/ SendRaises
    \/ Restart

SpecRuns == InitRuns /\ [][NextRuns]_vars

----------------------------------------------------------------------------
(* SpecTerm: one run from its start to the moment the controller holds no  *)
(* thread, over valid, invalid and degenerate configurations, under the    *)
(* scheduling the program runs under: the worker thread keeps running      *)
(* until it has returned, and the ui event loop runs the slot queued by    *)
(* QThread.finished.  A send may fail or be cancelled; no failure is       *)
(* required to happen.                                                     *)

InitTerm ==
    /\ CtlRunning
    /\ layers \in {-1, 0, 1}
    /\ \E m \in {"Legacy", "CustomCentered"}, o \in {"Horizontal", "Vertical", "Both"},
          st \in {0, 410}, L \in {0, 2} :
          /\ params = [SmallParams EXCEPT !.mode = m, !.orientation = o, !.step = st,
                                          !.fiber_length = L,
                                          !.fiber_orientation =
                                              IF o = "Vertical" THEN o ELSE "Horizontal"]
          /\ seq = [SeqIdle EXCEPT !.mode = m, !.mode0 = m]
    /\ sent = <<>>

SeqReturnMutDoneOnly ==
    /\ seq.pc = "done"
    /\ wpc = "send"
    /\ wpc' = "done"
    /\ outcome' = "Completed"
    /\ ev' = "step"
    /\ UNCHANGED <<ser, drawing_thread, pause_event, stop_event, layers, ip, nlayers,
                   live, upc, x, fwq, rx, hist>>
    /\ UNCHANGED seqvars

\* DrawingWorker.run, lines 162-165: _run_drawing_loop has returned or an
\* exception has left it
SeqReturn ==
    /\ seq.pc \in {"done", "failed"}
    /\ wpc = "send"
    /\ wpc' = "done"
    /\ outcome' = IF seq.pc = "done" THEN "Completed"
                  ELSE IF seq.exc = "Stopped" THEN "Stopped"
                  ELSE IF seq.exc = "send failed" THEN "IOError"
                  ELSE "ParameterError"
    /\ ev' = "step"
    /\ UNCHANGED <<ser, drawing_thread, pause_event, stop_event, layers, ip, nlayers,
                   live, upc, x, fwq, rx, hist>>
    /\ UNCHANGED seqvars

WorkerRuns ==
    \/ Sequencer \/ LegacySequencer \/ BothIterStart \/ BothIter
    \/ SeqReturn \/ WorkerExit

NextTerm ==
    \/ WorkerRuns
    \/ OnDrawingFinished
    \/ SendRaises

SpecTerm ==
    InitTerm /\ [][NextTerm]_vars /\ WF_vars(WorkerRuns) /\ WF_vars(OnDrawingFinished)

----------------------------------------------------------------------------
(* SpecPlan: the planner and the scan of one run, for each configuration of *)
(* a family, no edit and no failing send                                    *)

\* safe rectangle X[0,170] Y[20,250]; fiber_length 80, fiber_width 40,
\* fiber_spacing 1, Horizontal are the defaults
Scenario ==
    [DefaultParams EXCEPT !.safe_x_min = 0, !.safe_x_max = 170,
                          !.safe_y_min = 20, !.safe_y_max = 250]

InitPlan ==
    /\ CtlRunning
    /\ \E o \in {"Horizontal", "Vertical"} :
          \/ /\ layers \in 1..MaxCustomLayers
             /\ \E L \in 0..MaxLen, W \in (-1)..MaxWid, S \in 0..MaxSpc :
                   params = [SmallParams EXCEPT !.fiber_orientation = o,
                                                !.fiber_length = L, !.fiber_width = W,
                                                !.fiber_spacing = S]
          \/ /\ layers = DefaultLayers
             /\ \E p \in {DefaultParams, Scenario}, L \in {80, 200} :
                   params = [p EXCEPT !.fiber_orientation = o, !.fiber_length = L]
    /\ seq = SeqIdle
    /\ sent = <<>>

SpecPlan == InitPlan /\ [][Sequencer]_vars

----------------------------------------------------------------------------
(* Properties *)

\* C1: at most one command is outstanding on the transport - whenever a step
\* writes to the transport it writes one command, and at that moment no
\* earlier command is still waiting for its acknowledgment.
C1_OneOutstanding ==
    [][Len(fwq') > Len(fwq) => (Len(fwq') = Len(fwq) + 1 /\ ~Unacked)]_vars

\* C2: once stop is requested, a worker that is at a check point (the test of
\* _send_checked, the gate loop, the test after the gate) leaves it only by
\* raising "Stopped": it starts no exchange, so neither a command of the body
\* nor the footer is written after that check point.
C2_StopAborts ==
    /\ [](outcome = "Stopped" => stop_event /\ x["worker"].st = "idle")
    /\ [][(stop_event /\ wpc \in {"stopchk", "gate", "gate_exit"}) =>
            /\ (wpc' \in {wpc, "done"} \/ (wpc = "gate" /\ wpc' = "gate_exit"))
            /\ (wpc' = "done" => outcome' = "Stopped")
            /\ x'["worker"].st = "idle"]_vars

\* a run cancelled in the body, before its footer
C2_Witness ==
    /\ wpc = "done" /\ outcome = "Stopped"
    /\ ip > Len(Header) /\ ~IsFooterIp(nlayers, ip)

\* C3 as stated: in the scenario pause, then stop while paused, no command
\* reaches the transport after the pause call.
C3_NoCommandAfterPause == (hist.pending /\ stop_event) => hist.wsp = 0

\* C3 amended: after a pause call the worker writes at most one command - the
\* one whose gate it had passed before the call - and a run for which stop was
\* requested stays stopping (the stop flag set) until it is idle.
C3_PauseThenStop ==
    /\ [](hist.pending => hist.wsp <= 1)
    /\ [](hist.pending /\ hist.wsp = 1 /\ ~pause_event /\ ~stop_event =>
            wpc \in {"send", "stopchk", "gate", "done", "exited", "none"})
    /\ [][(drawing_thread /\ stop_event) =>
            (~drawing_thread' \/ stop_event')]_vars

\* paused, one command written after the pause call, then stopped: cancelled
C3_Witness ==
    /\ hist.pending /\ hist.wsp = 1 /\ stop_event
    /\ wpc = "done" /\ outcome = "Stopped"

\* C4: a worker that finds the run paused at the gate stays at the gate - it
\* writes nothing and does not fail - until the operator resumes, and leaves
\* it otherwise only as cancelled, when stop is requested.
C4_GateHolds ==
    [][(wpc = "gate" /\ ~pause_event) =>
         /\ wpc' \in {"gate", "done"}
         /\ (wpc' = "done" => stop_event /\ outcome' = "Stopped")
         /\ x'["worker"].st = "idle"
         /\ (Len(fwq') > Len(fwq) => fwq'[Len(fwq')] # "worker")]_vars

\* the worker held at the gate of a body command, neither resumed nor stopped
C4_Witness ==
    /\ wpc = "gate" /\ ~pause_event /\ ~stop_event
    /\ ip > Len(Header)

\* C5: at most one execution context runs the sequencer, it is the one the
\* controller holds in _drawing_thread, and it has at most one exchange in
\* progress, which it leaves before it goes to the next command.
C5_SingleRun ==
    /\ live <= 1
    /\ (live = 1 => drawing_thread)
    /\ (live = 1 <=> wpc \in {"run", "stopchk", "gate", "gate_exit", "send", "done"})
    /\ (x["worker"].st # "idle" => wpc = "send")

\* a start pressed while the worker waits for an acknowledgment
C5_Witness ==
    /\ live = 1 /\ x["worker"].st = "await"
    /\ ev = "start_already_running"

\* C6: a start that is refused - "already running" while a worker thread
\* exists, "not connected" while there is no port - writes nothing, creates
\* no worker and leaves the pause gate, the stop flag and the thread as they
\* were; a start creates a worker only when connected and idle.
C6_RefusedStart ==
    [][/\ (ev' = "start_not_connected" => ser = "None")
       /\ (ev' = "start_already_running" => ser # "None" /\ drawing_thread)
       /\ (ev' \in {"start_not_connected", "start_already_running"} =>
             UNCHANGED <<ser, drawing_thread, pause_event, stop_event, wpc, ip, outcome,
                         live, x, fwq, rx>>)
       /\ (live' > live => ser # "None" /\ ~drawing_thread)]_vars

\* a start refused while the run is stopping: the stop flag is still set
C6_Witness ==
    /\ ev = "start_already_running"
    /\ stop_event /\ live = 1

\* C7: disconnect closes the transport only once the run has drained to idle,
\* and the worker never finds the port closed or absent inside an exchange.
C7_ReleaseAfterDrain ==
    /\ (upc = "disc_clear" => ~drawing_thread /\ live = 0)
    /\ x["worker"].st \notin {"ioerror", "noconn"}

\* C8: the call succeeds exactly when a line containing the acknowledgment
\* token was read before any error-marked line (and before the deadline).
C8_ContainsAcks ==
    \A c \in Ctx : x[c].st \in {"ok", "fwerror", "timeout"} =>
        (x[c].st = "ok" <=> x[c].ackFirst)

C10_ErrorLineFails ==
    \A c \in Ctx : x[c].sawError =>
        (x[c].st = "fwerror" /\ ContainsError(Lower(x[c].last_nonempty)))

\* C11: a firmware error or a timeout ends the run - the worker's only move
\* after a failed exchange is to leave the loop with that failure, at the
\* failed command; the command is not sent again, and a worker that has left
\* the loop has no exchange and starts none.
C11_FailureFatal ==
    /\ [](wpc \in {"done", "exited", "none"} => x["worker"].st = "idle")
    /\ [][(wpc = "send" /\ x["worker"].st \in {"fwerror", "timeout"}) =>
            \/ (wpc' = wpc /\ x'["worker"] = x["worker"])
            \/ /\ wpc' = "done" /\ ip' = ip /\ x'["worker"].st = "idle"
               /\ outcome' = IF x["worker"].st = "fwerror" THEN "FirmwareError"
                             ELSE "Timeout"]_vars
    /\ [][(wpc \in {"done", "exited"}) => (wpc' \in {wpc, "exited", "none"})]_vars

\* a firmware error on a command of the body: the run is over, before the footer
C11_Witness ==
    /\ wpc = "done" /\ outcome = "FirmwareError"
    /\ ip > Len(Header) /\ ~IsFooterIp(nlayers, ip)

\* C12: after a command failure the run stays failed - nothing but an
\* acknowledgment (which the controller does not have) clears the failure, and
\* no start is accepted meanwhile.
C12_FailedLatched ==
    [][(outcome \in {"FirmwareError", "Timeout"}) => outcome' = outcome]_vars

\* C13: a cancelled run does not emit the error event that a failed run emits.
C13_CancelNoError == ~(ev = "error" /\ outcome = "Stopped")

\* C14 as stated: at the end of a run, a footer command has been written if
\* and only if the run completed without failure and without a stop request.
C14_FooterIffClean ==
    wpc = "done" =>
        ((/\ IsFooterIp(nlayers, ip)
          /\ (ip = Len(Program(nlayers))
              \/ outcome \in {"Completed", "FirmwareError", "Timeout"}))
         <=> (outcome = "Completed" /\ ~stop_event))

\* C14 amended: the commands are written in the order of the program, each
\* after the one before it was acknowledged, so the tone and then the parking
\* move come last, once, after every layer; the run is completed exactly when
\* the parking move is acknowledged.
C14_FooterLast ==
    /\ [](x["worker"].st # "idle" => x["worker"].cmd = CmdAt(ip))
    /\ []((wpc = "done" /\ outcome = "Completed") =>
            (ip = Len(Program(nlayers)) /\ nlayers = layers))
    /\ [][ip' # ip =>
            \/ (ip' = ip + 1 /\ wpc = "send" /\ x["worker"].st = "ok")
            \/ (ip' = 1 /\ (wpc' \in {"exited", "run"}))]_vars

\* completed although stop was requested: the parking move was already past
\* its check point
C14_Witness ==
    /\ wpc = "done" /\ outcome = "Completed" /\ stop_event
    /\ ip = Len(Program(nlayers))

----------------------------------------------------------------------------
(* The claims about the CustomCentered planner and sequencer *)

\* the messages of the RuntimeErrors the start of a layer raises
InvalidParameter == {"Fiber length must be > 0 and width must be >= 0",
                     "Fiber spacing must be > 0"}
OutOfBounds == "Custom area does not fit safe bounds"

\* the sequencer is inside a layer whose rectangle it has computed
Planned == seq.pc \in {"prologue", "line", "deposit", "extrusion", "ex_ledger", "travel",
                       "afterdrop", "ad_ledger", "clean", "cleaning", "barrier"}

\* the sequencer is inside a scan line
InLine == seq.pc \in {"deposit", "extrusion", "ex_ledger", "travel", "afterdrop",
                      "ad_ledger", "clean", "cleaning", "barrier"}

\* the configured area, laid out for the configured orientation, is larger than
\* the safe rectangle in X or in Y
ExceedsSafe(p) ==
    LET hor == p.fiber_orientation = "Horizontal"
        lx == IF hor THEN p.fiber_length ELSE p.fiber_width
        ly == IF hor THEN p.fiber_width ELSE p.fiber_length
    IN lx > p.safe_x_max - p.safe_x_min \/ ly > p.safe_y_max - p.safe_y_min

\* C15: a CustomCentered run whose rectangle at run start exceeds the safe
\* rectangle fails with the out-of-bounds error having written no command.
C15_NoWriteWhenOutOfBounds ==
    (seq.pc = "failed" /\ seq.exc = OutOfBounds /\ seq.layer = 0) => sent = <<>>

\* C16: at the start of every layer the configuration is validated again: with
\* L <= 0, W < 0 or S <= 0 the run ends with an invalid-parameter error, with an
\* area that exceeds the safe rectangle with the out-of-bounds error, in both
\* cases without writing a command of that layer (the last command written is
\* the header's last or the previous line's barrier), and a failed run writes
\* nothing more, so no footer.
C16_LayerRevalidated ==
    /\ [][(seq.pc = "layer" /\ seq.layer < seq.nlayers /\ seq'.pc # "layer") =>
            IF params.fiber_length <= 0 \/ params.fiber_width < 0
               \/ params.fiber_spacing <= 0
              THEN seq'.pc = "failed" /\ seq'.exc \in InvalidParameter /\ sent' = sent
            ELSE IF ExceedsSafe(params)
              THEN seq'.pc = "failed" /\ seq'.exc = OutOfBounds /\ sent' = sent
            ELSE seq'.pc = "prologue"]_vars
    /\ [][(seq.pc = "failed") => (seq'.pc = "failed" /\ sent' = sent)]_vars
    /\ []((seq.pc = "failed" /\ seq.exc \in InvalidParameter \cup {OutOfBounds}) =>
            (sent # <<>> /\ sent[Len(sent)].op \in {"G92 E0", "M400"}))

\* a later layer is refused because an edit made the area exceed the safe rectangle
C16_Witness ==
    /\ seq.pc = "failed" /\ seq.exc = OutOfBounds /\ seq.layer >= 1
    /\ sent[Len(sent)].op = "M400"

\* C17: when the planner succeeds the work rectangle lies in the safe rectangle,
\* has the length along X and the width along Y when Horizontal and the reverse
\* when Vertical, and the line count n is 1 for W = 0 and otherwise the n with
\* (n - 1) * S <= W < n * S; without edits exactly n lines are scanned.
C17_PlanWithinSafe ==
    /\ [](Planned =>
            LET hor == params.fiber_orientation = "Horizontal"
                L == params.fiber_length
                W == params.fiber_width
                S == params.fiber_spacing
                n == seq.n_fibers
            IN /\ 2 * params.safe_x_min <= seq.x0 /\ seq.x0 <= seq.x1
               /\ seq.x1 <= 2 * params.safe_x_max
               /\ 2 * params.safe_y_min <= seq.y0 /\ seq.y0 <= seq.y1
               /\ seq.y1 <= 2 * params.safe_y_max
               /\ seq.x1 - seq.x0 = 2 * (IF hor THEN L ELSE W)
               /\ seq.y1 - seq.y0 = 2 * (IF hor THEN W ELSE L)
               /\ L > 0 /\ W >= 0 /\ S > 0
               /\ IF W = 0 THEN n = 1 ELSE (n - 1) * S <= W /\ W < n * S)
    /\ [][(seq.pc = "line" /\ seq'.pc = "layer") => seq.i = seq.n_fibers]_vars

\* a Vertical layer whose width is not a multiple of the spacing has been scanned
C17_Witness ==
    /\ seq.pc = "line" /\ seq.i = seq.n_fibers /\ seq.n_fibers >= 2
    /\ params.fiber_orientation = "Vertical"
    /\ params.fiber_width % params.fiber_spacing # 0

\* the configuration is the one of the scenario: safe rectangle X[0,170]
\* Y[20,250], L = 80, W = 40, S = 1, Horizontal
InScenario == [params EXCEPT !.syringe_current_amount = 0] = Scenario

\* C18 as stated: in the scenario the work rectangle is X[0,80] Y[40,80], there
\* are 41 lines, and line i runs at Y = 40 + i, from X 0 to 80 when i is even
\* and from 80 to 0 when i is odd.
C18_AnchoredScenario ==
    (InScenario /\ Planned) =>
        /\ seq.x0 = 2 * 0 /\ seq.x1 = 2 * 80 /\ seq.y0 = 2 * 40 /\ seq.y1 = 2 * 80
        /\ seq.n_fibers = 41
        /\ InLine =>
             /\ seq.pos = 2 * (40 + seq.i)
             /\ <<seq.xs, seq.xe>> = IF seq.i % 2 = 0 THEN <<2 * 0, 2 * 80>>
                                     ELSE <<2 * 80, 2 * 0>>

\* C18 amended: in the scenario the work rectangle is centred in the safe
\* rectangle, X[45,125] Y[115,155]; 41 lines are scanned, line i at Y = 115 + i,
\* from X 45 to 125 when i is even and from 125 to 45 when i is odd: the first
\* command of a line is the move to its start and its eighth the move to its end.
C18_CenteredScenario ==
    /\ []((InScenario /\ Planned) =>
            /\ seq.x0 = 2 * 45 /\ seq.x1 = 2 * 125 /\ seq.y0 = 2 * 115 /\ seq.y1 = 2 * 155
            /\ seq.n_fibers = 41
            /\ InLine =>
                 /\ seq.i <= 40
                 /\ seq.pos = 2 * (115 + seq.i)
                 /\ <<seq.xs, seq.xe>> = IF seq.i % 2 = 0 THEN <<2 * 45, 2 * 125>>
                                         ELSE <<2 * 125, 2 * 45>>
                 /\ Len(sent) >= 1 => sent[1] = CmdF("G1 X Y", seq.xs, seq.pos, seq.speed)
                 /\ Len(sent) >= 8 => sent[8] = CmdF("G1 X Y", seq.xe, seq.pos, seq.speed))
    /\ [][(InScenario /\ seq.pc = "line" /\ seq'.pc = "layer") => seq.i = 41]_vars

\* line 40 of the scenario, at Y = 155, is written up to its barrier
C18_Witness ==
    /\ InScenario /\ seq.pc = "barrier" /\ seq.i = 40
    /\ sent[8] = CmdF("G1 X Y", 2 * 125, 2 * 155, 1500)

\* C19: in a layer, each scan line after the first starts on the side where
\* the line before it ended and ends where that one started, the two sides
\* being different; the moves written for a line are the move to its start
\* side and the move to its end side; for both orientations and under edits.
C19_Serpentine ==
    /\ [][(seq.pc = "line" /\ seq'.pc = "deposit" /\ seq.i > 0) =>
            (seq'.xs = seq.xe /\ seq'.xe = seq.xs /\ seq'.xs # seq'.xe)]_vars
    /\ []((InLine /\ sent # <<>>) =>
            sent[1] = IF seq.orient = "Horizontal" THEN CmdF("G1 X Y", seq.xs, seq.pos, seq.speed)
                      ELSE CmdF("G1 X Y", seq.pos, seq.xs, seq.speed))
    /\ []((seq.pc = "travel" /\ seq.k = 4) =>
            sent[Len(sent)] = IF seq.orient = "Horizontal"
                                THEN CmdF("G1 X Y", seq.xe, seq.pos, seq.speed)
                                ELSE CmdF("G1 X Y", seq.pos, seq.xe, seq.speed))

\* the second line of a Vertical layer has written its move to the start
C19_Witness ==
    /\ seq.pc = "deposit" /\ seq.k = 2 /\ seq.i = 1 /\ seq.orient = "Vertical"
    /\ sent[1].b = seq.y1

----------------------------------------------------------------------------
(* The claims about the control surface outside a run, stop's liveness,   *)
(* and the configuration                                                  *)

\* C25: while no run is active (the controller holds no drawing thread), no
\* step changes the pause gate, the stop flag or the run state except an
\* accepted start, which opens the gate and clears the flag; and a pause,
\* resume, toggle or stop call returns without emitting anything and
\* changes nothing.
C25_IdleControlsAreNoOps ==
    /\ [][(~drawing_thread /\ ~drawing_thread') =>
             UNCHANGED <<pause_event, stop_event, wpc, ip, nlayers, outcome, live>>]_vars
    /\ [][(~drawing_thread /\ drawing_thread') =>
             (pause_event' /\ ~stop_event')]_vars
    /\ [][(~drawing_thread /\ ev' = "noop") =>
             UNCHANGED <<ser, drawing_thread, pause_event, stop_event, layers, wpc,
                         ip, nlayers, outcome, live, upc, x, fwq, rx, hist>>]_vars

\* a stopped run has drained to Idle with the stop flag still set, and a
\* pause, resume or stop call has just returned without effect
C25_Witness ==
    /\ ~drawing_thread /\ ev = "noop"
    /\ outcome = "Stopped" /\ stop_event /\ pause_event

\* SpecLive: a connected controller, its runs and a disconnect, under the
\* scheduling the program runs under.  The worker thread keeps running
\* until it returns, a blocked _send_and_wait_ok keeps polling while time
\* advances to its deadline, the ui thread finishes a disconnect it has
\* begun, and the firmware goes on answering what it has received.  The
\* slot queued by QThread.finished is in the ui event queue ahead of any
\* later operator event, so it runs whenever the ui thread returns to its
\* event loop, however often the operator makes it busy again: strong
\* fairness.  No operator action is ever required to happen.
InitLive ==
    /\ ser = "Open"
    /\ drawing_thread = FALSE
    /\ pause_event = TRUE
    /\ stop_event = FALSE
    /\ layers \in 1..MaxLayers
    /\ wpc = "none"
    /\ ip = 1 /\ nlayers = 0
    /\ outcome = "none"
    /\ live = 0
    /\ upc = "idle"
    /\ x = [c \in Ctx |-> IdleX]
    /\ fwq = <<>>
    /\ rx = <<>>
    /\ ev = "step"
    /\ hist = NoHist
    /\ params = DefaultParams
    /\ seq = SeqIdle
    /\ sent = <<>>

WorkerStep ==
    \/ RunDrawingLoop \/ SendChecked \/ WaitPause \/ WaitStop \/ SendReturn \/ WorkerExit

CallStep(c) ==
    SendCheck(c) \/ SendWrite(c, MaxFw) \/ AwaitRead(c) \/ AwaitTimeout(c)

\* Every call that times out leaves its command with the firmware, so the
\* backlog of unanswered commands is unbounded; the model bounds it by
\* letting a deadline pass only while the backlog is below MaxFw.
TickLive ==
    /\ Len(fwq) < MaxFw
    /\ Tick(TickS)

NextLive ==
    \/ StartDrawing \/ PauseDrawing \/ ResumeDrawing \/ TogglePause \/ StopDrawing
    \/ OnDrawingFinished
    \/ Disconnect \/ DisconnectClose \/ DisconnectClear
    \/ WorkerStep
    \/ CallStep("worker")
    \/ FwOk \/ FwError \/ TickLive

Fairness ==
    /\ WF_vars(WorkerStep)
    /\ WF_vars(CallStep("worker"))
    /\ WF_vars(DisconnectClose \/ DisconnectClear)
    /\ SF_vars(OnDrawingFinished)
    /\ WF_vars(TickLive)
    /\ WF_vars(FwOk \/ FwError)

SpecLive == InitLive /\ [][NextLive]_vars /\ Fairness

\* C26: once stop is requested during a run (the controller holds a drawing
\* thread and the stop flag is set), the controller eventually holds no
\* drawing thread; and a start made while it holds none is never refused as
\* already running.
C26_StopDrains ==
    /\ (drawing_thread /\ stop_event) ~> ~drawing_thread
    /\ [][(~drawing_thread /\ ser = "Open" /\ ev' # ev) =>
             ev' # "start_already_running"]_vars

\* a run was stopped while its command was with the firmware, the worker
\* has returned and the queued slot has cleared the thread field
C26_Witness ==
    /\ ~drawing_thread /\ wpc = "none" /\ live = 0
    /\ outcome = "Stopped" /\ stop_event
    /\ fwq # <<>>

\* SpecConfig: AppState.set_param called again and again, with the names of
\* fields and with names that are not fields
FieldNames == DOMAIN DefaultParams \cup {"layers"}

\* the attributes hasattr finds on a Params object besides its fields: the
\* ones every object has ("__doc__" stands for them)
ObjectAttrs == {"__doc__"}

HasAttr(name) == name \in FieldNames \cup ObjectAttrs

CallNames ==
    {"layers", "fiber_orientation", "fiber_length", "afterdrop", "droplet_amount",
     "__doc__", "colour"}

CallValues(name) == IF name \in FieldNames THEN Values(name) ELSE {0}

Changed(name) == "changed " \o name

Unknown(name) == "AttributeError: Unknown param: " \o name

\* AppState.set_param, lines 72-76
AppStateSetParam(name, value) ==
    /\ IF ~HasAttr(name)
         THEN /\ ev' = Unknown(name)
              /\ UNCHANGED <<params, layers>>
         ELSE /\ IF name = "layers"
                   THEN layers' = value /\ UNCHANGED params
                   ELSE IF name \in FieldNames
                   THEN params' = [params EXCEPT ![name] = value] /\ UNCHANGED layers
                   ELSE UNCHANGED <<params, layers>>
              /\ ev' = Changed(name)
    /\ UNCHANGED <<ser, drawing_thread, pause_event, stop_event, wpc, ip, nlayers,
                   outcome, live, upc, x, fwq, rx, hist, seq, sent>>

NextConfig == \E name \in CallNames : \E value \in CallValues(name) : AppStateSetParam(name, value)

SpecConfig == Init /\ [][NextConfig]_vars

\* C27: a set_param call with a name that is not a field raises, changes no
\* field and emits nothing; a call with a field's name changes that field
\* only and emits the change.
C27_UnknownFieldRejected ==
    [][\A name \in CallNames :
          (ev' \in {Changed(name), Unknown(name)}) =>
             IF name \in FieldNames
               THEN /\ ev' = Changed(name)
                    /\ \A f \in DOMAIN params : f # name => params'[f] = params[f]
                    /\ name # "layers" => layers' = layers
               ELSE /\ ev' = Unknown(name)
                    /\ UNCHANGED <<params, layers>>]_vars

----------------------------------------------------------------------------
(* The claims about live parameters, the safe rectangle and the order of   *)
(* the commands of a CustomCentered run                                    *)

\* the rectangle _compute_centered_rect gives for the configuration as it is
LiveRect == ComputeCenteredRect(params, params.fiber_length, params.fiber_width, seq.orient)

\* C22: every line after the first of a layer is drawn in the work rectangle
\* of the configuration as it is when the line begins: its coordinate on the
\* width axis is the rectangle's near edge plus i times the spacing, and it
\* spans the rectangle's length.
C22_LineRereadsGeometry ==
    [][(seq.pc = "line" /\ seq'.pc = "deposit" /\ seq.i >= 1) =>
          LET hor == seq.orient = "Horizontal" IN
          /\ seq'.pos = (IF hor THEN LiveRect.y0 ELSE LiveRect.x0)
                           + 2 * (seq.i * params.fiber_spacing)
          /\ {seq'.xs, seq'.xe} = IF hor THEN {LiveRect.x0, LiveRect.x1}
                                  ELSE {LiveRect.y0, LiveRect.y1}]_vars

\* the commands that move the head in X, and those that move it in Y
MovesX(c) == c.op \in {"G1 X Y", "G1 X Z0", "G1 X", Footer[Len(Footer)]}
MovesY(c) == c.op \in {"G1 X Y", "G1 Y Z0", "G1 Y", Footer[Len(Footer)]}

\* the X and the Y a move command carries (doubled)
TargetX(c) == c.a
TargetY(c) == IF c.op \in {"G1 Y Z0", "G1 Y"} THEN c.a ELSE c.b

InsideSafe(c) ==
    /\ MovesX(c) => /\ 2 * params.safe_x_min <= TargetX(c)
                    /\ TargetX(c) <= 2 * params.safe_x_max
    /\ MovesY(c) => /\ 2 * params.safe_y_min <= TargetY(c)
                    /\ TargetY(c) <= 2 * params.safe_y_max

\* C23: in a run without an edit, every X and every Y of every move written
\* (line start, line end, clean moves, the parking move of the footer) lies
\* within the safe rectangle.
C23_MotionInsideSafe ==
    seq.nedits = 0 => \A j \in 1..Len(sent) : InsideSafe(sent[j])

\* the texts of the commands written, in order
Ops(s) == [j \in 1..Len(s) |-> s[j].op]

IsPrefix(s, t) == Len(s) <= Len(t) /\ \A j \in 1..Len(s) : s[j] = t[j]

\* the texts of the commands of one line, for the pause, afterdrop and clean
\* the line began with: the move to the start, the descent, the deposition,
\* the raise, the dwell, the move to the end (the travel and the landing at
\* z_offset), the afterdrop, the clean moves, the barrier
LineOps ==
    LET axis == IF seq.orient = "Horizontal" THEN "X" ELSE "Y" IN
    <<"G1 X Y", "G1 Z">>
    \o <<"G91", "G1 E-", "G4 P1000", "G90">>
    \o <<"G1 Z">>
    \o (IF seq.pause_ms # 0 THEN <<"G4 P">> ELSE <<>>)
    \o <<"G1 X Y", "G1 Z">>
    \o (IF seq.after THEN <<"G91", "G1 E-", "G4 P500", "G90", "G1 F">> ELSE <<>>)
    \o (IF seq.clean THEN <<"G1 " \o axis \o " Z0", "G1 " \o axis, "G1 Z3">> ELSE <<>>)
    \o <<"M400">>

LinePcs == {"deposit", "extrusion", "ex_ledger", "travel", "afterdrop", "ad_ledger",
            "clean", "cleaning", "barrier"}

\* C29: the commands of a line are written in the order of LineOps, the dwell
\* only when pause_ms is not zero, the afterdrop and the clean moves only
\* when enabled, and one M400 last: while a line is being written its
\* commands are a beginning of LineOps, and when the line is complete they
\* are LineOps, from the start point, down to z_offset, up to z_hop, to the
\* end point, down to z_offset.  The line index advances only in the step in
\* which the send of M400 returns, so no command of the next line is written
\* before that barrier is acknowledged.
C29_LineOrder ==
    /\ []((seq.pc \in LinePcs) => IsPrefix(Ops(sent), LineOps))
    /\ []((seq.pc = "line" /\ seq.i >= 1) =>
             /\ Ops(sent) = LineOps
             /\ sent[1] = MoveTo(seq.xs)
             /\ sent[2] = CmdF("G1 Z", seq.zoff, 0, seq.speed)
             /\ sent[7] = CmdF("G1 Z", seq.zhop, 0, seq.speed)
             /\ \E j \in 8..9 : /\ sent[j] = MoveTo(seq.xe)
                                /\ sent[j + 1] = CmdF("G1 Z", seq.zoff, 0, seq.speed))
    /\ [][(seq'.i = seq.i + 1) =>
             (seq.pc = "barrier" /\ sent' = Append(sent, Cmd("M400", 0, 0)))]_vars

\* a line with a dwell, an afterdrop and clean moves is complete: nineteen
\* commands
C29_Witness ==
    /\ seq.pc = "line" /\ seq.i >= 1
    /\ seq.pause_ms # 0 /\ seq.after /\ seq.clean
    /\ Len(sent) = 19

\* the commands of a line that carry the feed rate read when the line began
LineFeed(c) == c.op \in {"G1 X Y", "G1 Z", "G1 X Z0", "G1 X", "G1 Y Z0", "G1 Y", "G1 Z3"}

\* the commands of a Legacy sweep iteration that carry a feed rate
LegacyFeed(c) ==
    c.op \in {"G1 X Y", "G1 Z", "G1 Z3", "G1 F", "G1 X Z0", "G1 Y Z0",
              "G1 X Z", "G1 Z X", "G1 Z Y"}

\* C30: a line is written with the speed, z_offset, z_hop, pause_ms,
\* afterdrop and clean the configuration holds when the line begins, whatever
\* was edited before: while no edit has been made since the line began, every
\* command written so far carries the configuration's speed, the descents
\* its z_offset, the raise its z_hop, a dwell is written exactly when pause_ms
\* is not zero and lasts pause_ms, and the complete line has the afterdrop
\* and the clean moves exactly when the configuration enables them; in
\* Legacy the same holds of a sweep iteration, which the code reads the
\* parameters for once and closes with one barrier.  Every
\* retract, of a deposition or of an afterdrop, carries droplet_amount as it
\* is when the retract is written.
C30_LiveMotionParameters ==
    /\ []((~seq.ledit /\ (seq.pc \in LinePcs \/ (seq.pc = "line" /\ seq.i >= 1))
           /\ sent # <<>>) =>
             /\ \A j \in 1..Len(sent) :
                   /\ (LineFeed(sent[j]) \/ sent[j].op = "G1 F") => sent[j].f = params.speed
                   /\ sent[j].op = "G4 P" => (sent[j].a = params.pause_ms /\ j = 8)
                   /\ (sent[j].op = "G1 Z" /\ j # 7) => sent[j].a = params.z_offset
                   /\ (sent[j].op = "G1 Z" /\ j = 7) => sent[j].a = params.z_hop
             /\ Len(sent) >= 8 => (sent[8].op = "G4 P" <=> params.pause_ms # 0)
             /\ sent[Len(sent)].op = "M400" =>
                   /\ (\E j \in 1..Len(sent) : sent[j].op = "G1 F") <=> params.afterdrop
                   /\ (\E j \in 1..Len(sent) : sent[j].op = "G1 Z3") <=> params.clean)
    /\ []((~seq.ledit /\ (seq.pc = "lg_iter" \/ (seq.pc = "lg_sweep" /\ seq.i >= 1))
           /\ sent # <<>>) =>
             /\ \A j \in 1..Len(sent) :
                   /\ LegacyFeed(sent[j]) => sent[j].f = params.speed
                   /\ sent[j].f \in {0, params.speed}
                   /\ sent[j].op = "G1 Z" =>
                         sent[j].a = IF sent[j - 1].op = "G1 X Y" THEN params.z_offset
                                     ELSE params.z_hop
                   /\ sent[j].op \in {"G1 X Z", "G1 Z X", "G1 Z Y"} =>
                         sent[j].b = params.z_offset
                   /\ sent[j].op = "G4 P" => sent[j].a = params.pause_ms
                   /\ (sent[j].op = "G1 Z" /\ sent[j - 1].op = "G90" /\ j < Len(sent)) =>
                         (sent[j + 1].op = "G4 P" <=> params.pause_ms # 0)
             /\ sent[Len(sent)].op = "M400" =>
                   /\ (\E j \in 1..Len(sent) : sent[j].op = "G1 F") <=> params.afterdrop
                   /\ (\E j \in 1..Len(sent) : sent[j].op = "G1 Z3") <=> params.clean)
    /\ [][\A c \in {sent'[j] : j \in 1..Len(sent')} :
            (sent' = Append(sent, c) /\ c.op = "G1 E-") => c.a = params.droplet_amount]_vars

\* the second line of a layer is complete, written at the speed the
\* operator set while the first line was being written
C30_Witness ==
    /\ seq.pc = "line" /\ seq.i = 2 /\ ~seq.ledit /\ seq.nedits = 1
    /\ sent[Len(sent)].op = "M400"
    /\ params.speed = 3000 /\ sent[1].f = 3000

----------------------------------------------------------------------------
(* The claims about the two modes *)

\* C21: the strategy a run executes is the one of the mode the configuration
\* held when start_drawing accepted the run, whatever the operator sets the
\* mode to afterwards.
C21_ModeLatchedAtStart ==
    seq.pc # "called" => seq.mode = seq.mode0

\* the positions of the worker inside _run_legacy and _run_custom_centered
LegacyPcs ==
    {"lg_header", "lg_loop", "lg_layer", "lg_prologue", "lg_sweep", "lg_iter", "lg_footer"}

CustomPcs ==
    {"header", "loop", "layer", "prologue", "line", "deposit", "extrusion",
     "ex_ledger", "travel", "afterdrop", "ad_ledger", "clean", "cleaning",
     "barrier", "footer"}

\* C21 (amended): the worker reads the mode once, as the first step of the
\* drawing loop; from that read on the strategy it executes is the one of the
\* mode it read, whatever the operator sets the mode to afterwards.
C21_ModeLatchedAtRead ==
    /\ [](seq.pc \in LegacyPcs => seq.mode = "Legacy")
    /\ [](seq.pc \in CustomPcs => seq.mode = "CustomCentered")
    /\ [][(seq.pc # "called") => (seq'.mode = seq.mode)]_vars

\* the operator has changed the mode to CustomCentered while the Legacy run
\* was between two layers, and the run has gone on to its sweep in Legacy
C21_Witness ==
    /\ seq.pc = "lg_iter" /\ seq.layer >= 1
    /\ seq.mode = "Legacy" /\ params.mode = "CustomCentered"

\* the ends of the lines whose clean moves are in the log: the end of the
\* line in CustomCentered, the two ends of the sweep iteration in Legacy
LineEnds == IF seq.mode = "CustomCentered" THEN {seq.xe} ELSE {seq.a1, seq.a3}

\* the safe interval (doubled) of the axis a clean move moves along
SafeAlong(c) ==
    IF c.op = "G1 X Z0" THEN <<2 * params.safe_x_min, 2 * params.safe_x_max>>
    ELSE <<2 * params.safe_y_min, 2 * params.safe_y_max>>

\* C24: in either mode and in every layer, the first clean move goes to the
\* point 5 mm past an end of the line and the second to the point 10 mm past
\* it, on the same side, each clamped to the safe rectangle (stated of the
\* log of the line, or of the sweep iteration, being written).
C24_CleanMovesClamped ==
    (seq.pc \in LinePcs \cup {"line", "lg_iter"} \/ (seq.pc = "lg_sweep" /\ seq.i >= 1)) =>
    \A j \in 1..Len(sent) :
       sent[j].op \in {"G1 X Z0", "G1 Y Z0"} =>
          /\ j < Len(sent) =>
                \E e \in LineEnds : \E d \in {-10, 10} :
                   /\ sent[j].a = Clamp(e + d, SafeAlong(sent[j])[1], SafeAlong(sent[j])[2])
                   /\ sent[j + 1].a =
                         Clamp(e + 2 * d, SafeAlong(sent[j])[1], SafeAlong(sent[j])[2])
          /\ SafeAlong(sent[j])[1] <= sent[j].a /\ sent[j].a <= SafeAlong(sent[j])[2]

\* C28: in either mode the first seven commands of a run are, in this order,
\* M220 S100, M302 S0, M221 S100, G90, M82, G1 Z2 F1500, G92 E0: nothing is
\* written before the strategy is entered, the commands written while the
\* header is being sent are a beginning of that list, and when the layer
\* loop is reached they are that list.
C28_FixedHeader ==
    LET H == <<"M220 S100", "M302 S0", "M221 S100", "G90", "M82", "G1 Z2 F1500", "G92 E0">> IN
    /\ seq.pc \in {"called", "idle"} => sent = <<>>
    /\ seq.pc \in {"header", "lg_header"} =>
          (Len(sent) = seq.k - 1 /\ IsPrefix(Ops(sent), H))
    /\ seq.pc \in {"loop", "lg_loop"} => Ops(sent) = H

\* a Legacy run has written its header and is about to enter its layer loop
C28_Witness ==
    /\ seq.pc = "lg_loop" /\ seq.mode = "Legacy" /\ Len(sent) = 7

----------------------------------------------------------------------------
(* The claims about the line loop, the Legacy sweep and the controller     *)

\* the far edge of the work rectangle on the width axis of the layer
FarEdge == IF seq.orient = "Horizontal" THEN seq.y1 ELSE seq.x1

\* the width-axis coordinate the line of index seq.i gets with the spacing
\* the configuration holds now
NextPos ==
    (IF seq.orient = "Horizontal" THEN seq.y0 ELSE seq.x0)
       + 2 * (seq.i * params.fiber_spacing)

\* C31: in a CustomCentered layer, under any edit of the spacing, the index of
\* a line being written is below the count computed at the layer's start and
\* its width-axis coordinate is not past the far edge of the work rectangle;
\* a line whose coordinate would be past the far edge ends the layer, and
\* nothing is written for it.
C31_LineLoopBounded ==
    /\ [](InLine => (seq.i < seq.n_fibers /\ seq.pos <= FarEdge))
    /\ [](seq.pc = "line" => seq.i <= seq.n_fibers)
    /\ [][(seq.pc = "line" /\ seq'.pc # "line" /\ NextPos > FarEdge) =>
            (seq'.pc = "layer" /\ seq'.layer = seq.layer + 1 /\ sent' = sent)]_vars
    /\ [][(seq.pc = "line" /\ seq'.pc = "deposit") =>
            (seq'.pos = NextPos /\ seq'.i = seq.i /\ sent' = <<>>)]_vars

\* a layer was ended before its last line: the operator had widened the
\* spacing after the first line, and the second line would lie past the edge
C31_Witness ==
    /\ seq.pc = "layer" /\ seq.layer >= 1
    /\ 0 < seq.i /\ seq.i < seq.n_fibers
    /\ NextPos > FarEdge
    /\ sent # <<>> /\ sent[Len(sent)].op = "M400"

\* the offsets of the layer of index l: x1 and x3, y1 and y3 (lines 715-723)
LayerOffsets(l) ==
    [x1 |-> 51 - 6 * l, x3 |-> 2 * 128 + 6 * l, y1 |-> 2 * 79 - 6 * l, y3 |-> 363 + 6 * l]

\* C32: with orientation Both, a layer's first pass is the Horizontal one, the
\* Vertical pass of a layer is followed by the next layer and never by a
\* Horizontal line of the same layer, the commands of the Horizontal pass move
\* along X at a fixed Y and those of the Vertical pass along Y at a fixed X,
\* and the lines of both passes run between the offsets of that layer.
C32_BothSequential ==
    /\ [][(seq'.pc = "lg_bsweep" /\ seq.pc = "lg_prologue") => seq'.pass = "H"]_vars
    /\ [][(seq.pc \in {"lg_bsweep", "lg_biter"} /\ seq.pass = "V") =>
            (seq'.pass = "V" /\ (seq'.layer = seq.layer \/ seq'.pc = "lg_layer"))]_vars
    /\ [][(seq.pc \in {"lg_bsweep", "lg_biter"} /\ seq.pass = "H") =>
            seq'.layer = seq.layer]_vars
    /\ []((seq.pc = "lg_biter" \/ (seq.pc = "lg_bsweep" /\ seq.i >= 1 /\ sent # <<>>)) =>
            LET o == LayerOffsets(seq.layer) IN
            \A j \in 1..Len(sent) :
               /\ sent[j].op = "G1 X Y" =>
                     IF seq.pass = "H" THEN sent[j].a \in {o.x1, o.x3}
                     ELSE sent[j].b \in {o.y1, o.y3}
               /\ sent[j].op \in {"G1 X Z0", "G1 X"} =>
                     (seq.pass = "H" /\ sent[j].a \in {o.x3 + 10, o.x3 + 20})
               /\ sent[j].op \in {"G1 Y Z0", "G1 Y"} =>
                     (seq.pass = "V" /\ sent[j].a \in {o.y3 + 10, o.y3 + 20}))

\* the first line of the Vertical pass of the second layer is complete, its
\* clean moves written past y3 of that layer
C32_Witness ==
    /\ seq.pc = "lg_bsweep" /\ seq.pass = "V" /\ seq.layer = 1 /\ seq.i = 1
    /\ sent[Len(sent)].op = "M400"
    /\ \E j \in 1..Len(sent) : sent[j] = CmdF("G1 Y Z0", 363 + 6 + 10, 0, seq.speed)

\* C39: in a Horizontal or Vertical Legacy sweep, while the commands of a
\* deposition are being written, the first of a logical line or the second,
\* the swept coordinate is below the limit of the cup lookup.
C39_DepositionsBelowLimit ==
    (seq.pc = "lg_iter" /\ seq.k \in (4..7) \cup (21..24)) => seq.pos < seq.lim

\* C37: when a run has ended, finished or failed or stopped, and the operator
\* has not edited droplet_amount during it, the ledger is its value at run
\* start minus droplet_amount times the number of retract commands that were
\* acknowledged.
C37_LedgerFollowsRetracts ==
    (seq.pc \in {"done", "failed"} /\ ~seq.dedit) =>
       params.syringe_current_amount = seq.ledger0 - seq.d0 * seq.nret

\* the amount of the last retract command in the log
LastRetract ==
    LET R == {j \in 1..Len(sent) : sent[j].op = "G1 E-"}
    IN sent[CHOOSE j \in R : \A h \in R : h <= j].a

\* C38: every decrement of the ledger by the sequencer is by the amount of the
\* retract command that was sent in the sub-sequence it closes, whatever the
\* operator edits in between.
C38_DecrementIsRetract ==
    [][(seq.pc \in {"ex_ledger", "ad_ledger"} /\ seq'.pc \notin {"ex_ledger", "ad_ledger", "failed"}) =>
         params'.syringe_current_amount = params.syringe_current_amount - LastRetract]_vars

\* C33: when a _send_and_wait_ok call of the worker returns on an
\* acknowledgment, the firmware has answered the command the call wrote: the
\* command is no longer among those the firmware holds unanswered.
C33_AckIsOwn ==
    [][(x["worker"].st = "await" /\ x'["worker"].st = "ok") =>
          \A i \in 1..Len(fwq') : fwq'[i] # "worker"]_vars

\* C35: an accepted start leaves the pause gate open and the stop flag clear,
\* whatever the flags were before it; while the run is active the flags change
\* only in a call of the ui context, never in a step of the worker; and a
\* worker that finds the stop flag clear at a check point does not leave it
\* as cancelled.
C35_FreshStart ==
    /\ [][(~drawing_thread /\ drawing_thread') => (pause_event' /\ ~stop_event')]_vars
    /\ [][(drawing_thread /\ (pause_event' # pause_event \/ stop_event' # stop_event)) =>
            (upc = "idle" /\ wpc' = wpc /\ x' = x)]_vars
    /\ [][(~stop_event /\ wpc \in {"run", "stopchk", "gate", "gate_exit"} /\ wpc' = "done") =>
            outcome' # "Stopped"]_vars

\* a run started after one that was stopped and then paused before it had
\* drained: its first command is written, and a command of the earlier run is
\* still with the firmware
C35_Witness ==
    /\ drawing_thread /\ wpc = "send" /\ ip = 1 /\ x["worker"].st = "await"
    /\ pause_event /\ ~stop_event
    /\ Len(fwq) >= 2

\* C36: while the controller holds a drawing thread for which stop has been
\* requested, no call - pause, resume, toggle, start - takes the request back
\* or starts a second worker; the worker starts no further exchange, so at
\* most the command whose exchange had begun before the stop is written; and
\* the run drains even when it is paused after the stop.
C36_StopWins ==
    /\ [][(drawing_thread /\ stop_event) =>
            /\ (drawing_thread' => stop_event')
            /\ live' <= live
            /\ (x["worker"].st = "idle" => x'["worker"].st = "idle")]_vars
    /\ (drawing_thread /\ stop_event /\ ~pause_event) ~> ~drawing_thread

\* stop, then pause: the worker has left as cancelled with the gate closed,
\* and a start pressed before the slot has run is refused
C36_Witness ==
    /\ drawing_thread /\ stop_event /\ ~pause_event
    /\ outcome = "Stopped" /\ wpc = "exited"
    /\ ev = "start_already_running"

\* the commands that move no axis and are not an extruder retract
NoMotionOps ==
    {"G90", "G91", "G4 P1000", "G4 P500", "G4 P", "G1 F", "M400", "M82", "G92 E0",
     "M220 S100", "M302 S0", "M221 S100", "M300 S440 P200", "?"}

\* C34: in any sequence of runs, whichever way each of them ended, a command
\* that moves X, Y or Z is written only while the last positioning toggle the
\* sequencer has written is G90, and an extruder retract only while it is G91.
C34_PositioningMode ==
    [][(Len(sent') = Len(sent) + 1) =>
         LET c == sent'[Len(sent')] IN
            /\ (c.op = "G1 E-" => seq.toggle = "rel")
            /\ (c.op \notin NoMotionOps \cup {"G1 E-"} => seq.toggle = "abs")]_vars

\* a later run writes its first move, after a run that ended between the G91
\* and the G90 of a retract
C34_Witness ==
    /\ seq.run > 1 /\ seq.toggle0 = "rel" /\ seq.toggle = "abs"
    /\ seq.pc \in {"header", "lg_header"} /\ seq.k = 7
    /\ Len(sent) = 6 /\ sent[6].op = "G1 Z2 F1500"

\* the run has written both commands of the footer as its last commands
FooterWritten ==
    /\ Len(sent) >= Len(Footer)
    /\ \A j \in 1..Len(Footer) : sent[Len(sent) - Len(Footer) + j].op = Footer[j]

\* the messages of the exceptions a layer's validation raises
ParameterErrors ==
    {"Fiber length must be > 0 and width must be >= 0", "Fiber spacing must be > 0",
     "Custom area does not fit safe bounds"}

\* C40 as stated: for every configuration, unless a send fails or is
\* cancelled, the run eventually returns with the footer written.
C40_AlwaysFooter == <>(seq.pc = "done" \/ seq.exc \in {"send failed", "Stopped"})

\* C40 amended: for every configuration, step = 0 and layers <= 0 included,
\* the run eventually ends - with the footer written, or by the exception of
\* a layer's validation, of a failed send or of a cancellation - and the
\* controller then comes to hold no thread on an open port, where start is
\* accepted, and stays so.
C40_RunEnds ==
    /\ <>[](~drawing_thread /\ ser = "Open" /\ wpc = "none" /\ seq.pc \in {"done", "failed"})
    /\ [](seq.pc = "done" => FooterWritten)
    /\ [](seq.pc = "failed" => seq.exc \in ParameterErrors \cup {"send failed", "Stopped"})

\* a Legacy run with step = 0 has swept all its iterations in place, written
\* the footer, and the controller holds no thread
C40_Witness ==
    /\ seq.mode = "Legacy" /\ params.step = 0 /\ seq.nlayers > 0
    /\ seq.pc = "done" /\ seq.i = ZeroStepLines /\ FooterWritten
    /\ ~drawing_thread /\ wpc = "none"

====
